---- MODULE Spec2Model ----
(***************************************************************************)
(* Lumos gamma ramp engine (src/src/platform/win32/gamma.cpp): the ramp    *)
(* builder, the adaptive (bisection) apply against the operating system's  *)
(* accept/reject behaviour, and the restore path.                          *)
(*                                                                         *)
(* Number representation.  The code computes with IEEE doubles; the model  *)
(* uses fixed point:                                                       *)
(*   - a curve sample ("corrected", "linear", a control point's x or y) is *)
(*     an integer number of units of 1/(65535*Frac), so that the           *)
(*     quantisation static_cast<WORD>(corrected * 65535.0) is              *)
(*     (value \div Frac), a truncation, as in the code;                    *)
(*   - a blend scale (safe_scale, low, high, try_scale) is an integer      *)
(*     number of units of 1/ScaleDen; products and midpoints are truncated *)
(*     to that resolution where the code's doubles round to theirs.        *)
(* The values of the std::pow based curves and of the envelope are        *)
(* tabulated (the tables hold floor(f(i/255.0) * 65535.0 * Frac) evaluated *)
(* in IEEE doubles).                                                       *)
(***************************************************************************)
EXTENDS Integers, Sequences, FiniteSets, TLC

(* ---------------- program constants ---------------- *)
RampSize == 256
WordMax == 65535
kMinStep == 1
kMaxDiff == 512
kMaxAttempts == 6
Frac == 1000
ScaleDen == 32000

One == WordMax * Frac

Min(a, b) == IF a <= b THEN a ELSE b
Abs(a) == IF a < 0 THEN 0 - a ELSE a

(* ---------------- tone curves (tabulated std::pow shapes) ---------------- *)
ShadowLiftTable ==
  << 0, 3266270, 5566852, 7254859, 8637762, 9830591, 10890980, 11852563,
     12736934, 13558912, 14329169, 15055689, 15744620, 16400814, 17028178, 17629912,
     18208672, 18766695, 19305881, 19827862, 20334052, 20825683, 21303839, 21769478,
     22223451, 22666519, 23099365, 23522605, 23936796, 24342445, 24740014, 25129926,
     25512567, 25888295, 26257438, 26620301, 26977165, 27328292, 27673926, 28014294,
     28349608, 28680067, 29005857, 29327153, 29644119, 29956910, 30265672, 30570543,
     30871654, 31169127, 31463079, 31753621, 32040859, 32324892, 32605816, 32883721,
     33158695, 33430819, 33700171, 33966829, 34230862, 34492341, 34751332, 35007896,
     35262096, 35513990, 35763633, 36011079, 36256380, 36499585, 36740743, 36979900,
     37217100, 37452385, 37685798, 37917379, 38147164, 38375193, 38601501, 38826123,
     39049092, 39270441, 39490202, 39708404, 39925079, 40140254, 40353958, 40566216,
     40777057, 40986504, 41194583, 41401317, 41606731, 41810846, 42013685, 42215269,
     42415619, 42614755, 42812698, 43009465, 43205077, 43399550, 43592904, 43785155,
     43976320, 44166417, 44355459, 44543465, 44730448, 44916424, 45101407, 45285412,
     45468453, 45650542, 45831694, 46011922, 46191237, 46369653, 46547182, 46723835,
     46899625, 47074562, 47248657, 47421922, 47594368, 47766004, 47936841, 48106888,
     48276157, 48444656, 48612394, 48779382, 48945628, 49111140, 49275929, 49440001,
     49603366, 49766032, 49928007, 50089298, 50249914, 50409862, 50569150, 50727784,
     50885773, 51043124, 51199842, 51355936, 51511411, 51666275, 51820533, 51974193,
     52127261, 52279742, 52431643, 52582969, 52733727, 52883923, 53033561, 53182648,
     53331189, 53479190, 53626655, 53773590, 53920000, 54065891, 54211266, 54356132,
     54500492, 54644352, 54787716, 54930590, 55072976, 55214881, 55356308, 55497261,
     55637746, 55777765, 55917324, 56056427, 56195076, 56333277, 56471034, 56608349,
     56745228, 56881673, 57017689, 57153279, 57288447, 57423195, 57557529, 57691451,
     57824964, 57958072, 58090779, 58223087, 58355000, 58486521, 58617653, 58748400,
     58878763, 59008747, 59138355, 59267588, 59396451, 59524946, 59653075, 59780843,
     59908250, 60035301, 60161998, 60288344, 60414340, 60539991, 60665297, 60790263,
     60914890, 61039181, 61163138, 61286764, 61410061, 61533032, 61655678, 61778003,
     61900008, 62021696, 62143069, 62264128, 62384877, 62505318, 62625452, 62745282,
     62864810, 62984037, 63102967, 63221600, 63339939, 63457986, 63575743, 63693211,
     63810393, 63927291, 64043906, 64160241, 64276296, 64392074, 64507577, 64622806,
     64737764, 64852452, 64966871, 65081023, 65194911, 65308535, 65421897, 65534999 >>
SoftContrastTable ==
  << 0, 1156500, 2313000, 3469500, 4626000, 5788248, 6837917, 7795120,
     8679688, 9505296, 10281836, 11016733, 11715726, 12383361, 13023304, 13638568,
     14231660, 14804695, 15359474, 15897547, 16420258, 16928783, 17424157, 17907294,
     18379010, 18840036, 19291026, 19732573, 20165214, 20589438, 21005690, 21414378,
     21815877, 22210534, 22598666, 22980569, 23356516, 23726763, 24091545, 24451085,
     24805590, 25155253, 25500256, 25840770, 26176956, 26508965, 26836941, 27161018,
     27481325, 27797982, 28111104, 28420800, 28727175, 29030325, 29330346, 29627326,
     29921351, 30212502, 30500857, 30786491, 31069474, 31349875, 31627759, 31903188,
     32176223, 32446922, 32715340, 32981530, 33245544, 33507431, 33767239, 34025013,
     34280798, 34534636, 34786569, 35036637, 35284877, 35531328, 35776024, 36019000,
     36260291, 36499929, 36737945, 36974370, 37209233, 37442563, 37674389, 37904736,
     38133632, 38361102, 38587170, 38811861, 39035198, 39257204, 39477901, 39697310,
     39915452, 40132349, 40348019, 40562481, 40775756, 40987861, 41198814, 41408632,
     41617333, 41824934, 42031449, 42236896, 42441290, 42644645, 42846977, 43048299,
     43248627, 43447973, 43646351, 43843774, 44040256, 44235808, 44430443, 44624172,
     44817009, 45008964, 45200048, 45390272, 45579648, 45768186, 45955896, 46142788,
     46328873, 46514160, 46698658, 46882378, 47065328, 47247517, 47428954, 47609649,
     47789608, 47968841, 48147356, 48325161, 48502264, 48678672, 48854394, 49029436,
     49203806, 49377512, 49550560, 49722957, 49894711, 50065827, 50236313, 50406175,
     50575419, 50744052, 50912080, 51079509, 51246345, 51412594, 51578261, 51743353,
     51907874, 52071831, 52235229, 52398073, 52560368, 52722120, 52883334, 53044014,
     53204167, 53363795, 53522905, 53681502, 53839588, 53997170, 54154252, 54310839,
     54466933, 54622541, 54777666, 54932313, 55086485, 55240186, 55393422, 55546194,
     55698509, 55850369, 56001778, 56152740, 56303258, 56453337, 56602980, 56752190,
     56900971, 57049327, 57197260, 57344775, 57491874, 57638561, 57784839, 57930711,
     58076181, 58221251, 58365925, 58510205, 58654095, 58797597, 58940715, 59083452,
     59225809, 59367791, 59509400, 59650638, 59791508, 59932014, 60072157, 60211941,
     60351367, 60490439, 60629158, 60767528, 60905552, 61043230, 61180566, 61317563,
     61454222, 61590545, 61726536, 61862197, 61997529, 62132535, 62267217, 62401578,
     62535619, 62669342, 62802751, 62935846, 63068630, 63201105, 63333273, 63465135,
     63596695, 63727953, 63858913, 63989575, 64119941, 64250014, 64379796, 64509287,
     64638491, 64767408, 64896041, 65024391, 65152460, 65280250, 65407763, 65535000 >>
CinemaTable ==
  << 0, 7778232, 10154573, 11868316, 13256914, 14444933, 15494225, 16440636,
     17307057, 18109117, 18858029, 19562149, 20227892, 20860306, 21463443, 22040615,
     22594565, 23127597, 23641664, 24138441, 24619378, 25085733, 25538615, 25978998,
     26407750, 26825644, 27233373, 27631562, 28020776, 28401527, 28774281, 29139465,
     29497469, 29848653, 30193348, 30531859, 30864469, 31191440, 31513018, 31829429,
     32140886, 32447587, 32749718, 33047455, 33340960, 33630389, 33915886, 34197588,
     34475626, 34750122, 35021192, 35288945, 35553487, 35814917, 36073328, 36328811,
     36581451, 36831330, 37078526, 37323112, 37565160, 37804739, 38041912, 38276743,
     38509291, 38739614, 38967766, 39193801, 39417769, 39639719, 39859699, 40077753,
     40293925, 40508257, 40720790, 40931563, 41140614, 41347978, 41553692, 41757789,
     41960302, 42161264, 42360704, 42558654, 42755141, 42950193, 43143839, 43336104,
     43527014, 43716593, 43904866, 44091856, 44277586, 44462077, 44645352, 44827431,
     45008334, 45188081, 45366691, 45544183, 45720576, 45895886, 46070131, 46243328,
     46415494, 46586644, 46756793, 46925958, 47094152, 47261391, 47427688, 47593058,
     47757513, 47921067, 48083733, 48245523, 48406449, 48566524, 48725760, 48884167,
     49041757, 49198540, 49354529, 49509733, 49664162, 49817826, 49970736, 50122901,
     50274330, 50425034, 50575019, 50724297, 50872875, 51020762, 51167966, 51314496,
     51460359, 51605564, 51750118, 51894028, 52037303, 52179950, 52321975, 52463387,
     52604191, 52744394, 52884004, 53023026, 53161468, 53299336, 53436635, 53573372,
     53709552, 53845183, 53980269, 54114817, 54248831, 54382318, 54515282, 54647730,
     54779666, 54911095, 55042023, 55172455, 55302395, 55431849, 55560820, 55689315,
     55817336, 55944890, 56071980, 56198611, 56324787, 56450512, 56575791, 56700627,
     56825026, 56948990, 57072524, 57195631, 57318316, 57440583, 57562434, 57683874,
     57804906, 57925534, 58045762, 58165592, 58285029, 58404076, 58522735, 58641011,
     58758906, 58876424, 58993568, 59110341, 59226746, 59342786, 59458464, 59573784,
     59688747, 59803357, 59917616, 60031528, 60145095, 60258321, 60371206, 60483755,
     60595970, 60707854, 60819408, 60930636, 61041540, 61152123, 61262387, 61372334,
     61481967, 61591287, 61700299, 61809003, 61917402, 62025498, 62133294, 62240791,
     62347992, 62454899, 62561513, 62667838, 62773875, 62879627, 62985094, 63090280,
     63195186, 63299814, 63404166, 63508243, 63612049, 63715585, 63818851, 63921852,
     64024587, 64127059, 64229270, 64331222, 64432915, 64534352, 64635535, 64736465,
     64837144, 64937574, 65037755, 65137690, 65237381, 65336828, 65436034, 65535000 >>
PowerTable1 ==
  << 0, 0, 0, 0, 0, 0, 0, 0,
     0, 0, 0, 0, 0, 0, 0, 0,
     0, 0, 0, 0, 0, 0, 0, 0,
     0, 0, 0, 0, 0, 0, 0, 0,
     0, 0, 0, 0, 0, 0, 0, 0,
     0, 0, 0, 1, 1, 1, 2, 2,
     3, 4, 5, 6, 8, 9, 11, 14,
     17, 20, 24, 28, 34, 40, 47, 55,
     64, 75, 88, 102, 119, 137, 159, 183,
     211, 242, 277, 317, 362, 413, 469, 533,
     605, 685, 774, 874, 985, 1109, 1247, 1400,
     1569, 1757, 1965, 2195, 2448, 2728, 3036, 3375,
     3747, 4157, 4606, 5098, 5637, 6227, 6871, 7576,
     8344, 9182, 10095, 11089, 12170, 13345, 14621, 16006,
     17508, 19136, 20898, 22806, 24868, 27097, 29504, 32102,
     34904, 37924, 41178, 44680, 48449, 52501, 56856, 61533,
     66553, 71939, 77715, 83904, 90533, 97631, 105225, 113346,
     122028, 131303, 141208, 151781, 163061, 175090, 187912, 201572,
     216120, 231606, 248084, 265610, 284242, 304042, 325075, 347408,
     371114, 396265, 422939, 451220, 481190, 512941, 546565, 582160,
     619828, 659675, 701813, 746358, 793432, 843161, 895678, 951121,
     1009634, 1071367, 1136477, 1205126, 1277485, 1353731, 1434048, 1518630,
     1607674, 1701391, 1799995, 1903714, 2012781, 2127439, 2247943, 2374555,
     2507550, 2647212, 2793836, 2947729, 3109209, 3278608, 3456268, 3642547,
     3837812, 4042449, 4256854, 4481440, 4716634, 4962879, 5220635, 5490378,
     5772599, 6067811, 6376541, 6699337, 7036767, 7389415, 7757891, 8142822,
     8544857, 8964671, 9402956, 9860434, 10337847, 10835963, 11355577, 11897510,
     12462610, 13051752, 13665843, 14305816, 14972637, 15667302, 16390841, 17144314,
     17928818, 18745484, 19595479, 20480005, 21400305, 22357658, 23353386, 24388848,
     25465449, 26584635, 27747896, 28956770, 30212838, 31517732, 32873130, 34280765,
     35742416, 37259920, 38835165, 40470096, 42166714, 43927080, 45753315, 47647600,
     49612179, 51649363, 53761525, 55951110, 58220630, 60572669, 63009881, 65535000 >>
PowerTable5 ==
  << 0, 1007, 4031, 9070, 16125, 25196, 36282, 49384,
     64501, 81635, 100784, 121949, 145129, 170325, 197537, 226764,
     258007, 291266, 326541, 363831, 403137, 444458, 487796, 533149,
     580517, 629901, 681301, 734717, 790149, 847596, 907058, 968537,
     1032031, 1097541, 1165066, 1234607, 1306164, 1379737, 1455325, 1532929,
     1612549, 1694184, 1777835, 1863501, 1951184, 2040882, 2132596, 2226325,
     2322070, 2419831, 2519607, 2621400, 2725207, 2831031, 2938870, 3048725,
     3160596, 3274482, 3390384, 3508301, 3628235, 3750184, 3874149, 4000129,
     4128125, 4258137, 4390164, 4524207, 4660266, 4798341, 4938431, 5080537,
     5224658, 5370796, 5518949, 5669117, 5821301, 5975501, 6131717, 6289949,
     6450196, 6612458, 6776737, 6943031, 7111341, 7281666, 7454007, 7628364,
     7804737, 7983125, 8163529, 8345949, 8530384, 8716835, 8905301, 9095784,
     9288282, 9482796, 9679325, 9877870, 10078431, 10281007, 10485600, 10692207,
     10900831, 11111470, 11324125, 11538796, 11755482, 11974184, 12194901, 12417635,
     12642384, 12869149, 13097929, 13328725, 13561537, 13796364, 14033207, 14272066,
     14512941, 14755831, 15000737, 15247658, 15496596, 15747549, 16000517, 16255501,
     16512501, 16771517, 17032549, 17295596, 17560658, 17827737, 18096831, 18367941,
     18641066, 18916207, 19193364, 19472537, 19753725, 20036929, 20322149, 20609384,
     20898635, 21189901, 21483184, 21778482, 22075796, 22375125, 22676470, 22979831,
     23285207, 23592600, 23902007, 24213431, 24526870, 24842325, 25159796, 25479282,
     25800784, 26124301, 26449835, 26777384, 27106949, 27438529, 27772125, 28107737,
     28445364, 28785007, 29126666, 29470341, 29816031, 30163737, 30513458, 30865196,
     31218949, 31574717, 31932501, 32292301, 32654117, 33017949, 33383796, 33751658,
     34121537, 34493431, 34867341, 35243266, 35621207, 36001164, 36383137, 36767125,
     37153129, 37541149, 37931184, 38323235, 38717301, 39113384, 39511482, 39911596,
     40313725, 40717870, 41124031, 41532207, 41942400, 42354607, 42768831, 43185070,
     43603325, 44023596, 44445882, 44870184, 45296501, 45724835, 46155184, 46587549,
     47021929, 47458325, 47896737, 48337164, 48779607, 49224066, 49670541, 50119031,
     50569537, 51022058, 51476596, 51933149, 52391717, 52852301, 53314901, 53779517,
     54246149, 54714796, 55185458, 55658137, 56132831, 56609541, 57088266, 57569007,
     58051764, 58536537, 59023325, 59512129, 60002949, 60495784, 60990635, 61487501,
     61986384, 62487282, 62990196, 63495125, 64002070, 64511031, 65022007, 65535000 >>
PowerTable22 ==
  << 0, 5279483, 7234744, 8698907, 9914139, 10972486, 11920556, 12785769,
     13585851, 14333029, 15036157, 15701882, 16335345, 16940619, 17520992, 18079163,
     18617384, 19137551, 19641281, 20129965, 20604812, 21066877, 21517089, 21956271,
     22385157, 22804401, 23214594, 23616269, 24009908, 24395951, 24774799, 25146820,
     25512351, 25871702, 26225162, 26572995, 26915449, 27252752, 27585118, 27912747,
     28235825, 28554527, 28869016, 29179447, 29485965, 29788705, 30087798, 30383365,
     30675522, 30964377, 31250034, 31532591, 31812142, 32088776, 32362578, 32633627,
     32902002, 33167774, 33431016, 33691793, 33950171, 34206210, 34459970, 34711507,
     34960875, 35208127, 35453313, 35696480, 35937676, 36176945, 36414330, 36649872,
     36883612, 37115587, 37345835, 37574393, 37801294, 38026572, 38250261, 38472390,
     38692991, 38912093, 39129724, 39345913, 39560685, 39774067, 39986084, 40196761,
     40406121, 40614187, 40820982, 41026527, 41230844, 41433954, 41635875, 41836628,
     42036232, 42234704, 42432064, 42628329, 42823515, 43017639, 43210717, 43402766,
     43593801, 43783836, 43972886, 44160967, 44348090, 44534271, 44719523, 44903859,
     45087290, 45269831, 45451493, 45632287, 45812226, 45991321, 46169583, 46347022,
     46523650, 46699478, 46874514, 47048769, 47222254, 47394977, 47566948, 47738176,
     47908670, 48078439, 48247492, 48415837, 48583482, 48750437, 48916707, 49082303,
     49247230, 49411498, 49575113, 49738082, 49900413, 50062113, 50223189, 50383647,
     50543494, 50702737, 50861381, 51019435, 51176903, 51333791, 51490106, 51645854,
     51801041, 51955671, 52109751, 52263287, 52416283, 52568745, 52720678, 52872087,
     53022978, 53173356, 53323225, 53472590, 53621456, 53769828, 53917710, 54065107,
     54212024, 54358464, 54504432, 54649933, 54794970, 54939548, 55083671, 55227343,
     55370568, 55513349, 55655691, 55797598, 55939073, 56080120, 56220742, 56360944,
     56500728, 56640099, 56779059, 56917613, 57055762, 57193512, 57330865, 57467823,
     57604392, 57740573, 57876369, 58011784, 58146821, 58281483, 58415772, 58549692,
     58683246, 58816435, 58949264, 59081734, 59213849, 59345612, 59477024, 59608088,
     59738808, 59869185, 59999223, 60128923, 60258288, 60387321, 60516024, 60644399,
     60772450, 60900177, 61027583, 61154671, 61281443, 61407901, 61534047, 61659884,
     61785413, 61910637, 62035558, 62160177, 62284498, 62408521, 62532250, 62655685,
     62778829, 62901684, 63024252, 63146534, 63268533, 63390250, 63511688, 63632847,
     63753730, 63874339, 63994675, 64114740, 64234536, 64354065, 64473328, 64592326,
     64711062, 64829537, 64947753, 65065711, 65183414, 65300861, 65418056, 65535000 >>
PowerTable90 ==
  << 0, 35406251, 38240866, 40003079, 41302420, 42339262, 43205715, 43952110,
     44609081, 45196717, 45728932, 46215775, 46664753, 47081623, 47470904, 47836209,
     48180473, 48506115, 48815155, 49109293, 49389978, 49658455, 49915798, 50162947,
     50400721, 50629847, 50850966, 51064651, 51271413, 51471712, 51665963, 51854542,
     52037789, 52216014, 52389502, 52558512, 52723283, 52884035, 53040970, 53194276,
     53344127, 53490684, 53634098, 53774507, 53912044, 54046830, 54178979, 54308599,
     54435790, 54560647, 54683259, 54803711, 54922081, 55038445, 55152873, 55265433,
     55376189, 55485200, 55592524, 55698215, 55802327, 55904907, 56006003, 56105660,
     56203920, 56300826, 56396415, 56490725, 56583792, 56675650, 56766333, 56855871,
     56944295, 57031635, 57117917, 57203169, 57287416, 57370684, 57452996, 57534375,
     57614844, 57694423, 57773134, 57850997, 57928030, 58004252, 58079681, 58154334,
     58228228, 58301380, 58373805, 58445518, 58516534, 58586867, 58656531, 58725539,
     58793905, 58861640, 58928758, 58995270, 59061187, 59126520, 59191282, 59255481,
     59319129, 59382234, 59444808, 59506860, 59568398, 59629431, 59689969, 59750020,
     59809592, 59868693, 59927330, 59985512, 60043247, 60100540, 60157400, 60213833,
     60269846, 60325446, 60380639, 60435431, 60489829, 60543838, 60597464, 60650714,
     60703592, 60756104, 60808255, 60860051, 60911497, 60962597, 61013358, 61063782,
     61113876, 61163643, 61213088, 61262216, 61311031, 61359537, 61407737, 61455638,
     61503241, 61550551, 61597573, 61644308, 61690762, 61736938, 61782840, 61828470,
     61873832, 61918929, 61963766, 62008344, 62052668, 62096739, 62140562, 62184139,
     62227473, 62270567, 62313424, 62356046, 62398436, 62440598, 62482532, 62524243,
     62565733, 62607003, 62648057, 62688897, 62729525, 62769943, 62810155, 62850161,
     62889965, 62929569, 62968974, 63008182, 63047197, 63086019, 63124651, 63163095,
     63201352, 63239426, 63277316, 63315026, 63352558, 63389912, 63427091, 63464096,
     63500930, 63537593, 63574088, 63610416, 63646579, 63682578, 63718416, 63754092,
     63789610, 63824970, 63860174, 63895224, 63930120, 63964865, 63999459, 64033905,
     64068203, 64102354, 64136361, 64170224, 64203944, 64237524, 64270964, 64304265,
     64337428, 64370456, 64403348, 64436107, 64468733, 64501227, 64533591, 64565826,
     64597932, 64629911, 64661764, 64693493, 64725097, 64756578, 64787937, 64819175,
     64850293, 64881293, 64912174, 64942938, 64973586, 65004119, 65034537, 65064842,
     65095035, 65125116, 65155086, 65184946, 65214697, 65244340, 65273876, 65303305,
     65332629, 65361847, 65390962, 65419973, 65448882, 65477688, 65506394, 65535000 >>

\* min(1.0, linear * 3.0 + 0.2) of buildRamp, in the same units.
EnvelopeTable ==
  << 13107000, 13878000, 14649000, 15420000, 16191000, 16962000, 17733000, 18504000,
     19275000, 20046000, 20817000, 21588000, 22359000, 23130000, 23901000, 24672000,
     25443000, 26214000, 26985000, 27756000, 28527000, 29298000, 30069000, 30840000,
     31611000, 32382000, 33153000, 33923999, 34695000, 35466000, 36237000, 37008000,
     37779000, 38550000, 39321000, 40092000, 40863000, 41634000, 42404999, 43176000,
     43947000, 44718000, 45489000, 46259999, 47030999, 47802000, 48573000, 49344000,
     50115000, 50886000, 51657000, 52428000, 53199000, 53970000, 54740999, 55512000,
     56283000, 57054000, 57825000, 58595999, 59366999, 60138000, 60909000, 61680000,
     62451000, 63221999, 63993000, 64764000, 65535000, 65535000, 65535000, 65535000,
     65535000, 65535000, 65535000, 65535000, 65535000, 65535000, 65535000, 65535000,
     65535000, 65535000, 65535000, 65535000, 65535000, 65535000, 65535000, 65535000,
     65535000, 65535000, 65535000, 65535000, 65535000, 65535000, 65535000, 65535000,
     65535000, 65535000, 65535000, 65535000, 65535000, 65535000, 65535000, 65535000,
     65535000, 65535000, 65535000, 65535000, 65535000, 65535000, 65535000, 65535000,
     65535000, 65535000, 65535000, 65535000, 65535000, 65535000, 65535000, 65535000,
     65535000, 65535000, 65535000, 65535000, 65535000, 65535000, 65535000, 65535000,
     65535000, 65535000, 65535000, 65535000, 65535000, 65535000, 65535000, 65535000,
     65535000, 65535000, 65535000, 65535000, 65535000, 65535000, 65535000, 65535000,
     65535000, 65535000, 65535000, 65535000, 65535000, 65535000, 65535000, 65535000,
     65535000, 65535000, 65535000, 65535000, 65535000, 65535000, 65535000, 65535000,
     65535000, 65535000, 65535000, 65535000, 65535000, 65535000, 65535000, 65535000,
     65535000, 65535000, 65535000, 65535000, 65535000, 65535000, 65535000, 65535000,
     65535000, 65535000, 65535000, 65535000, 65535000, 65535000, 65535000, 65535000,
     65535000, 65535000, 65535000, 65535000, 65535000, 65535000, 65535000, 65535000,
     65535000, 65535000, 65535000, 65535000, 65535000, 65535000, 65535000, 65535000,
     65535000, 65535000, 65535000, 65535000, 65535000, 65535000, 65535000, 65535000,
     65535000, 65535000, 65535000, 65535000, 65535000, 65535000, 65535000, 65535000,
     65535000, 65535000, 65535000, 65535000, 65535000, 65535000, 65535000, 65535000,
     65535000, 65535000, 65535000, 65535000, 65535000, 65535000, 65535000, 65535000,
     65535000, 65535000, 65535000, 65535000, 65535000, 65535000, 65535000, 65535000,
     65535000, 65535000, 65535000, 65535000, 65535000, 65535000, 65535000, 65535000,
     65535000, 65535000, 65535000, 65535000, 65535000, 65535000, 65535000, 65535000 >>

\* double linear = i / 255.0, in units of 1/(65535*Frac): exactly 257*i*Frac.
Linear(i) == 257 * i * Frac

ShadowLiftCurve(i) == ShadowLiftTable[i + 1]
SoftContrastCurve(i) == SoftContrastTable[i + 1]

\* std::pow(linear, 1.0 / strength); strength in tenths, one of the tabulated ones.
PowerCurve(i, strength) ==
  CASE strength = 1 -> PowerTable1[i + 1]
    [] strength = 5 -> PowerTable5[i + 1]
    [] strength = 10 -> Linear(i)
    [] strength = 22 -> PowerTable22[i + 1]
    [] strength = 26 -> CinemaTable[i + 1]
    [] strength = 90 -> PowerTable90[i + 1]

(* ---------------- arrays ---------------- *)
\* std::array<WORD, 256> is a sequence of RampSize words; entry i of the code is
\* element i + 1.  Array(f) is the sequence f itself (appending nothing is the
\* identity); written this way each entry is evaluated once.
Array(f) == f \o << >>

(* ---------------- exact a*b/c on 32-bit integers ---------------- *)
\* <<q, r>> with a*b = q*c + r and 0 <= r < c, for a, b >= 0 and 0 < c <= One;
\* b is taken one hexadecimal digit at a time so that no intermediate value
\* exceeds 31*c.
RECURSIVE MulDivQR(_, _, _)
MulDivQR(a, b, c) ==
  IF b = 0 THEN << 0, 0 >>
  ELSE LET h == MulDivQR(a, b \div 16, c)
           digit == b % 16
           r3 == 16 * h[2] + digit * (a % c)
           q3 == 16 * h[1] + digit * (a \div c)
       IN << q3 + (r3 \div c), r3 % c >>

\* A quotient taken before the product.
DivideFirst(a, b, c) == (a \div c) * b

\* floor(a*b/c) for a >= 0, c > 0 and b of either sign.
MulDivFloor(a, b, c) ==
  IF b >= 0 THEN MulDivQR(a, b, c)[1]
  ELSE LET qr == MulDivQR(a, 0 - b, c)
       IN IF qr[2] = 0 THEN 0 - qr[1] ELSE 0 - qr[1] - 1

(* ---------------- Gamma::buildRamp ---------------- *)
\* The Custom case: piecewise-linear interpolation between control points.
\* custom_curve is the pointer argument: [is_null, points], points a sequence of
\* [x, y] records (empty when the pointer is null).
nullptr == [is_null |-> TRUE, points |-> << >>]
PointsAt(points) == [is_null |-> FALSE, points |-> points]

RECURSIVE CustomSegment(_, _, _)
CustomSegment(points, linear, j) ==
  IF j > Len(points) - 1 THEN linear
  ELSE IF linear >= points[j].x /\ linear <= points[j + 1].x
       THEN LET x1 == points[j].x
                y1 == points[j].y
                x2 == points[j + 1].x
                y2 == points[j + 1].y
            IN IF x2 > x1 THEN y1 + MulDivFloor(linear - x1, y2 - y1, x2 - x1)
               ELSE y1
       ELSE CustomSegment(points, linear, j + 1)

CustomCurve(custom_curve, linear) ==
  IF ~custom_curve.is_null /\ Len(custom_curve.points) >= 2
  THEN LET points == custom_curve.points IN
       IF linear <= points[1].x THEN points[1].y
       ELSE IF linear >= points[Len(points)].x THEN points[Len(points)].y
       ELSE CustomSegment(points, linear, 1)
  ELSE linear

ClampStrength(strength) ==
  IF strength < 1 THEN 1 ELSE IF strength > 90 THEN 90 ELSE strength

\* The switch on the curve kind: the value of "corrected" before the clamps.
Corrected(curve, strength, custom_curve, i) ==
  CASE curve = "Linear" -> Linear(i)
    [] curve = "ShadowLift" -> ShadowLiftCurve(i)
    [] curve = "SoftContrast" -> SoftContrastCurve(i)
    [] curve = "Cinema" -> PowerCurve(i, 26)
    [] curve = "Custom" -> CustomCurve(custom_curve, Linear(i))
    [] OTHER -> PowerCurve(i, ClampStrength(strength))

\* A clamp to [0, 1] without the envelope.
ClampUnit(corrected, i) ==
  IF corrected < 0 THEN 0 ELSE IF corrected > One THEN One ELSE corrected

\* Clamp to [0, 1], then to the envelope [0, min(1, 3 * identity + 0.2)].
ClampSample(corrected, i) ==
  LET c1 == IF corrected < 0 THEN 0 ELSE IF corrected > One THEN One ELSE corrected
      max_allowed == EnvelopeTable[i + 1]
  IN IF c1 > max_allowed THEN max_allowed ELSE c1

\* A quantization that rounds to the nearest word.
RoundNearest(corrected) == (corrected + Frac \div 2) \div Frac

\* static_cast<WORD>(corrected * 65535.0): truncation.
Quantize(corrected) == corrected \div Frac

\* A loop body that leaves the entry as it is.
KeepStep(channel, i, prev) == channel[i + 1]

\* A loop body that raises without the cap at 65535.
RaiseUncapped(channel, i, prev) ==
  IF channel[i + 1] <= prev /\ i > 0 THEN prev + kMinStep ELSE channel[i + 1]

\* enforce_channel: one left-to-right pass with the running predecessor.
\* A channel is a tuple of RampSize words; entry i of the code is channel[i + 1].
\* EnforceStep is the loop body for entry i, given prev.
EnforceStep(channel, i, prev) ==
  IF channel[i + 1] <= prev /\ i > 0
  THEN (IF prev < WordMax - kMinStep THEN prev + kMinStep ELSE WordMax)
  ELSE channel[i + 1]

\* The pass over entries lo..hi entered with prev: the processed entries, in order.
\* (The range is split in halves only to keep the evaluation shallow; the right
\* half is entered with the last processed entry of the left half.)
RECURSIVE EnforceRange(_, _, _, _)
EnforceRange(channel, lo, hi, prev) ==
  IF lo = hi THEN << EnforceStep(channel, lo, prev) >>
  ELSE LET mid == (lo + hi) \div 2
           left == EnforceRange(channel, lo, mid, prev)
       IN left \o EnforceRange(channel, mid + 1, hi, left[Len(left)])

EnforceChannel(channel) == EnforceRange(channel, 0, RampSize - 1, 0)

Gray(channel) == [red |-> channel, green |-> channel, blue |-> channel]

IsGray(ramp) == ramp.green = ramp.red /\ ramp.blue = ramp.red

\* The lambda of enforceMonotonicity runs on red, green and blue in turn; on
\* equal channels it gives equal results, which are then computed once.
enforceMonotonicity(ramp) ==
  IF IsGray(ramp)
  THEN Gray(EnforceChannel(ramp.red))
  ELSE [red |-> EnforceChannel(ramp.red),
        green |-> EnforceChannel(ramp.green),
        blue |-> EnforceChannel(ramp.blue)]

\* The loop of buildRamp: val for i = 0 .. 255, before enforceMonotonicity.
Samples(curve, strength, custom_curve) ==
  Array([k \in 1 .. RampSize |->
           Quantize(ClampSample(Corrected(curve, strength, custom_curve, k - 1), k - 1))])

buildRamp(curve, strength, custom_curve) ==
  enforceMonotonicity(Gray(Samples(curve, strength, custom_curve)))

buildIdentityRamp == Gray(Array([k \in 1 .. RampSize |-> (k - 1) * 257]))

(* ---------------- ramps on the wire ---------------- *)
Channels == {"red", "green", "blue"}

\* blendRampTowardIdentity, one channel: identity + scale * (ramp - identity),
\* clamped to [0, 65535] and truncated by the cast to WORD.
BlendChannel(ramp, identity, scale) ==
  Array([k \in 1 .. RampSize |->
           LET r == (identity[k] * ScaleDen + scale * (ramp[k] - identity[k])) \div ScaleDen
           IN IF r < 0 THEN 0 ELSE IF r > WordMax THEN WordMax ELSE r])

blendRampTowardIdentity(ramp, identity, scale) ==
  IF IsGray(ramp) /\ IsGray(identity)
  THEN Gray(BlendChannel(ramp.red, identity.red, scale))
  ELSE [red |-> BlendChannel(ramp.red, identity.red, scale),
        green |-> BlendChannel(ramp.green, identity.green, scale),
        blue |-> BlendChannel(ramp.blue, identity.blue, scale)]

\* The comparison loop of verifyRamp (after a successful read-back).
WithinTolerance(expected, actual) ==
  \A k \in 1 .. RampSize :
    /\ Abs(expected.red[k] - actual.red[k]) <= kMaxDiff
    /\ Abs(expected.green[k] - actual.green[k]) <= kMaxDiff
    /\ Abs(expected.blue[k] - actual.blue[k]) <= kMaxDiff

\* A verification that compares without looking at the result of the read.
CompareUnread(read_ok, actual, expected) ==
  \A k \in 1 .. RampSize :
    /\ Abs(expected.red[k] - actual.red[k]) <= kMaxDiff
    /\ Abs(expected.green[k] - actual.green[k]) <= kMaxDiff
    /\ Abs(expected.blue[k] - actual.blue[k]) <= kMaxDiff

\* verifyRamp: read_ok is the result of readRamp, actual the ramp it read.
verifyRamp(read_ok, actual, expected) ==
  IF ~read_ok THEN FALSE ELSE WithinTolerance(expected, actual)

\* GammaRamp{} : value-initialised, all zero.
ZeroRamp == Gray(Array([k \in 1 .. RampSize |-> 0]))

(* ---------------- bounds of the model ---------------- *)
NDisplays == 2
MaxOps == 3
MaxFaults == 2

Displays == 1 .. NDisplays

(* ---------------- the engine and its environment ---------------- *)
VARIABLES
  monitors,  \* Gamma::monitors_ : sequence of MonitorInfo
  screen,    \* operating system: the ramp loaded in each display
  oracle,    \* operating system: per display, its behaviour during the operation
  call,      \* the applyAll / apply invocation in progress
  search,    \* per display: the locals of applyRampAdaptive and its probe record
  written,   \* per display: the last setRamp call of the current operation
  ret,       \* the last completed operation: its argument, return value, OS answers
  nops,      \* public operations begun
  faults,    \* environment faults so far
  reply      \* the operating system's answers to the probe just made

evars == << monitors, screen, oracle, call, search, written, ret, nops, faults, reply >>

\* The bench of the pure functions: the arguments of buildRamp and the ramp
\* built from them; the ramp handed to enforceMonotonicity (its result is
\* rb_ramp); a sample position of the Custom curve and the curve's value there.
VARIABLES rb_args, rb_ramp, rb_pc, rb_raw, rb_x, rb_y

rvars == << rb_args, rb_ramp, rb_pc, rb_raw, rb_x, rb_y >>

\* The application around the engine (App, WinMain, CrashHandler).
VARIABLES
  wm_pc,                  \* WinMain's position
  filter,                 \* SetUnhandledExceptionFilter(CrashHandler) has run
  g_crash_gamma,          \* the pointer CrashHandler restores through
  current_gamma_,         \* App::current_gamma_
  tone_curve_,            \* App::tone_curve_
  gamma_enabled_,         \* App::gamma_enabled_
  gamma_before_disable_,  \* App::gamma_before_disable_
  modified,               \* an applyAll has run since the originals were last restored
  last_apply,             \* the last applyAll call: curve and strength passed, value returned
  event,                  \* the last handler run by the message loop, and the toggle state it found
  nevents,                \* handlers run so far
  crash                   \* what an unhandled fault found and did

avars == << wm_pc, filter, g_crash_gamma, current_gamma_, tone_curve_, gamma_enabled_,
            gamma_before_disable_, modified, last_apply, event, nevents, crash >>

\* The global hotkeys (App::setHotkeys, Hotkeys).
VARIABLES
  config_hotkeys,         \* config_.hotkey_increase, _decrease, _reset, _toggle
  bindings,               \* Hotkeys::binding_increase_, _decrease_, _reset_, _toggle_
  hwnd_,                  \* Hotkeys::hwnd_
  registered_,            \* Hotkeys::registered_
  os_hotkeys,             \* the keystroke the OS holds for each hotkey id of the window
  taken,                  \* keystrokes other applications have registered
  hk_pc,                  \* where the application is: "init", "loop", "exited"
  hk_ret                  \* the last call and what it returned

kvars == << config_hotkeys, bindings, hwnd_, registered_, os_hotkeys, taken, hk_pc, hk_ret >>

\* The screen histogram capture (ScreenHistogramCapture).
VARIABLES
  running_,               \* std::atomic<bool> running_
  enabled_,               \* std::atomic<bool> enabled_
  histogram_,             \* the shared ScreenHistogram
  histogram_mutex_,       \* "free" or the thread that holds it
  capture_thread_,        \* "none", "running" (joinable) or "joined"
  cap_pc,                 \* the capture thread's position
  cap_result,             \* captureScreen's local result
  ncaptures,              \* histograms published so far
  rd_pc,                  \* each getHistogram caller's position
  snapshot,               \* each caller's copy, as far as it has been made
  main_pc                 \* the owner of the object: start, stop, destructor

hvars == << running_, enabled_, histogram_, histogram_mutex_, capture_thread_, cap_pc,
            cap_result, ncaptures, rd_pc, snapshot, main_pc >>

vars == << evars, rvars, avars, kvars, hvars >>

Strengths == {0, 1, 5, 10, 22, 90, 95}
PointXs == {0, 32767500, 65535000}
PointYs == {0 - 13107000, 0, 32767500, 45874500, 65535000, 78642000}
Points == [x : PointXs, y : PointYs]
PointLists ==
  {nullptr, PointsAt(<< >>)}
    \cup {PointsAt(<< p >>) : p \in Points}
    \cup {PointsAt(<< p, q >>) : p \in Points, q \in Points}
    \cup {PointsAt(<< [x |-> 0, y |-> 0], [x |-> 32767500, y |-> y], [x |-> 65535000, y |-> 65535000] >>) :
             y \in PointYs}
BenchArgs ==
  {[curve |-> c, strength |-> 10, custom_curve |-> nullptr] :
     c \in {"Linear", "ShadowLift", "SoftContrast", "Cinema"}}
    \cup {[curve |-> "Power", strength |-> s, custom_curve |-> nullptr] : s \in Strengths}
    \cup {[curve |-> "Custom", strength |-> 10, custom_curve |-> p] : p \in PointLists}

LinearArgs == [curve |-> "Linear", strength |-> 10, custom_curve |-> nullptr]

BenchIdle ==
  /\ rb_args = LinearArgs
  /\ rb_ramp = buildIdentityRamp
  /\ rb_pc = "off"
  /\ rb_raw = buildIdentityRamp
  /\ rb_x = 0
  /\ rb_y = 0

\* Gamma values are held in hundredths: GammaDen is 1.0.
GammaDen == 100

NoApply == [called |-> FALSE, curve |-> "Power", strength |-> GammaDen, ok |-> TRUE]
NoEvent == [name |-> "none", arg |-> 0, gamma |-> GammaDen, enabled |-> TRUE]
NoCrash == [modified |-> FALSE, handled |-> FALSE, restored |-> FALSE]

\* The members of App as declared, before WinMain has done anything.
AppDefaults ==
  /\ filter = FALSE
  /\ g_crash_gamma = "nullptr"
  /\ current_gamma_ = GammaDen
  /\ tone_curve_ = "Power"
  /\ gamma_enabled_ = TRUE
  /\ gamma_before_disable_ = GammaDen
  /\ modified = FALSE
  /\ last_apply = NoApply
  /\ event = NoEvent
  /\ nevents = 0
  /\ crash = NoCrash

AppIdle == wm_pc = "off" /\ AppDefaults

\* The four hotkey ids, in the order they are registered.
Ids == {"increase", "decrease", "reset", "toggle"}

\* Ctrl+Alt+Up, Ctrl+Alt+Down, Ctrl+Alt+R, Ctrl+Alt+G.
DefaultBindings == [increase |-> "Up", decrease |-> "Down", reset |-> "R", toggle |-> "G"]

NoHotkeys == [id \in Ids |-> "none"]
NoKeyCall == [op |-> "none", success |-> TRUE]

\* The members of Hotkeys and Config as declared.
KeysDefaults ==
  /\ config_hotkeys = DefaultBindings
  /\ bindings = DefaultBindings
  /\ hwnd_ = "nullptr"
  /\ registered_ = FALSE
  /\ os_hotkeys = NoHotkeys
  /\ hk_ret = NoKeyCall

KeysIdle == hk_pc = "off" /\ taken = {} /\ KeysDefaults

\* A histogram whose two fields come from the same captureScreen run (run 0 is
\* the default-constructed one).
Complete(n) == [luminance |-> n, max_value |-> n]

\* Threads that call getHistogram: the window's render loop and one more.
Readers == {"window", "other"}

\* The members of ScreenHistogramCapture as declared.
HistDefaults ==
  /\ running_ = FALSE
  /\ enabled_ = TRUE
  /\ histogram_ = Complete(0)
  /\ histogram_mutex_ = "free"
  /\ capture_thread_ = "none"
  /\ cap_pc = "off"
  /\ cap_result = 0
  /\ ncaptures = 0
  /\ rd_pc = [r \in Readers |-> "idle"]
  /\ snapshot = [r \in Readers |-> Complete(0)]

HistIdle == main_pc = "off" /\ HistDefaults

IdentityRamp == buildIdentityRamp

\* The ramps the displays carry when the program starts (the OS's own).
FactoryRamp(d) ==
  IF d = 1 THEN IdentityRamp
  ELSE [red |-> IdentityRamp.red,
        green |-> IdentityRamp.green,
        blue |-> Array([k \in 1 .. RampSize |-> (k - 1) * 200])]

\* MonitorInfo::safe_scale as a display is enumerated (1.0).
InitialSafeScale == ScaleDen

\* Inputs of applyAll / apply used by the engine model.
PowerInput == [curve |-> "Power", strength |-> 22, custom_curve |-> nullptr]
LinearInput == [curve |-> "Linear", strength |-> 10, custom_curve |-> nullptr]
ApplyInputs == {PowerInput, LinearInput}

IdealRamps == [a \in ApplyInputs |-> buildRamp(a.curve, a.strength, a.custom_curve)]

\* How a display behaves while one operation runs: limit is the largest blend
\* scale whose ramp it accepts (reject everything, even scale 0; accept up to
\* 0.6; accept everything), readable is whether GetDeviceGammaRamp succeeds.
RejectAll == 0 - 1
AcceptAll == ScaleDen
Limits == {RejectAll, (6 * ScaleDen) \div 10, AcceptAll}
Cooperative == [limit |-> AcceptAll, readable |-> TRUE]
Behaviours ==
  {[limit |-> l, readable |-> TRUE] : l \in Limits}
    \cup {[limit |-> AcceptAll, readable |-> FALSE]}

WriteAnswers == {"honour", "fail", "ignore"}
AllHonour == [d \in Displays |-> "honour"]

Count(S) == Cardinality(S)

NoSearch ==
  [st |-> "none", start_safe |-> 0, low |-> 0, high |-> 0, attempt |-> 0,
   last_good |-> IdentityRamp, any_success |-> FALSE, probes |-> << >>,
   result |-> FALSE]

NotWritten == [kind |-> "none", ramp |-> ZeroRamp]

IdleCall == [pc |-> "idle", op |-> "none", m |-> 0, ideal |-> IdentityRamp, success |-> TRUE]

NoRet == [op |-> "none", arg |-> 0, value |-> FALSE, resp |-> AllHonour]

NoReply == [write |-> "none", read_ok |-> FALSE]

EngineInit ==
  /\ monitors = << >>
  /\ screen = [d \in Displays |-> FactoryRamp(d)]
  /\ oracle = [d \in Displays |-> Cooperative]
  /\ call = IdleCall
  /\ search = [d \in Displays |-> NoSearch]
  /\ written = [d \in Displays |-> NotWritten]
  /\ ret = NoRet
  /\ nops = 0
  /\ faults = 0
  /\ reply = NoReply

\* A start scale that is always the full scale.
FullStartScale(monitor) == ScaleDen

\* A start scale taken from the first monitor's safe_scale, whichever monitor
\* is searched.
SharedStartScale(monitor) == Min(ScaleDen, (monitors[1].safe_scale * 105) \div 100)

\* double scale = (std::min)(1.0, monitor.safe_scale * 1.05);
StartScale(monitor) == Min(ScaleDen, (monitor.safe_scale * 105) \div 100)

\* The locals of applyRampAdaptive on entry.
StartSearch(monitor) ==
  [st |-> "loop", start_safe |-> monitor.safe_scale, low |-> 0,
   high |-> StartScale(monitor), attempt |-> 0, last_good |-> IdentityRamp,
   any_success |-> FALSE, probes |-> << >>, result |-> FALSE]

\* A convergence test that never succeeds.
NeverConverged(low, high) == FALSE

\* high - low < 0.02
Converged(low, high) == (high - low) * 50 < ScaleDen

\* Gamma::initialize: enumerate (found displays), capture each display's ramp.
Initialize(found, cap) ==
  /\ call.pc = "idle"
  /\ nops < MaxOps
  /\ \A d \in Displays : d > found => cap[d]
  /\ LET cost == (IF found = 0 THEN 1 ELSE 0) + Count({d \in Displays : ~cap[d]})
     IN /\ faults + cost <= MaxFaults
        /\ faults' = faults + cost
  /\ monitors' = [d \in 1 .. found |->
                    [has_original |-> cap[d],
                     original_ramp |-> IF cap[d] THEN screen[d] ELSE ZeroRamp,
                     safe_scale |-> InitialSafeScale]]
  /\ ret' = [op |-> "initialize", arg |-> found,
             value |-> (found > 0 /\ \A d \in 1 .. found : cap[d]),
             resp |-> [d \in Displays |-> IF cap[d] THEN "honour" ELSE "fail"]]
  /\ call' = IdleCall
  /\ search' = [d \in Displays |-> NoSearch]
  /\ written' = [d \in Displays |-> NotWritten]
  /\ nops' = nops + 1
  /\ reply' = NoReply
  /\ UNCHANGED << screen, oracle >>

\* The entry of applyAll / apply: limits are the displays' acceptance limits
\* while the operation runs; first is the first monitor searched.
BeginApply(op, input, limits, first) ==
  /\ faults' = faults + Count({d \in Displays : limits[d] # Cooperative})
  /\ faults' <= MaxFaults
  /\ oracle' = limits
  /\ call' = [pc |-> "search", op |-> op, m |-> first, ideal |-> IdealRamps[input],
              success |-> TRUE]
  /\ search' = [d \in Displays |->
                  IF d = first THEN StartSearch(monitors[d]) ELSE NoSearch]
  /\ written' = [d \in Displays |-> NotWritten]
  /\ nops' = nops + 1
  /\ reply' = NoReply
  /\ UNCHANGED << monitors, screen, ret >>

\* An operation that returns at once, writing nothing.
ReturnAtOnce(op, arg, value) ==
  /\ ret' = [op |-> op, arg |-> arg, value |-> value, resp |-> AllHonour]
  /\ call' = IdleCall
  /\ search' = [d \in Displays |-> NoSearch]
  /\ written' = [d \in Displays |-> NotWritten]
  /\ nops' = nops + 1
  /\ reply' = NoReply
  /\ UNCHANGED << monitors, screen, oracle, faults >>

\* Gamma::applyAll(curve, strength, custom_curve)
ApplyAll(input, limits) ==
  /\ call.pc = "idle"
  /\ nops < MaxOps
  /\ \A d \in Displays : d > Len(monitors) => limits[d] = Cooperative
  /\ IF Len(monitors) = 0
     THEN ReturnAtOnce("applyAll", 0, TRUE)
     ELSE BeginApply("applyAll", input, limits, 1)

\* Gamma::apply(monitor_index, curve, strength, custom_curve); index is 1-based here.
Apply(index, input, limits) ==
  /\ call.pc = "idle"
  /\ nops < MaxOps
  /\ \A d \in Displays : (d # index \/ d > Len(monitors)) => limits[d] = Cooperative
  /\ IF index > Len(monitors)
     THEN ReturnAtOnce("apply", index, FALSE)
     ELSE BeginApply("apply", input, limits, index)

\* What the operating system may answer to the probe of try_scale on display m:
\* write is SetDeviceGammaRamp's effect (honour: loads the ramp, returns TRUE;
\* ignore: returns TRUE and keeps the old ramp; fail: returns FALSE), read_ok is
\* GetDeviceGammaRamp's result in verifyRamp.
ProbeAnswers(m, try_scale) ==
  IF try_scale <= oracle[m].limit
  THEN {[write |-> "honour", read_ok |-> oracle[m].readable]}
  ELSE {[write |-> "fail", read_ok |-> TRUE], [write |-> "ignore", read_ok |-> TRUE]}

\* A try_scale that never leaves the upper bound.
UpperBoundScale(s) == s.high

\* A try_scale halfway between low and full scale.
MidOfUnit(s) == IF s.attempt = 0 THEN s.high ELSE (s.low + ScaleDen) \div 2

\* double try_scale = (attempt == 0) ? high : 0.5 * (low + high);
TryScale(s) == IF s.attempt = 0 THEN s.high ELSE (s.low + s.high) \div 2

\* The body of the bisection loop after the probe: accepted is
\* setRamp(...) && verifyRamp(...), write_ok is setRamp's result.
AfterProbe(s, try_scale, blended, write_ok, accepted) ==
  LET probed == Append(s.probes, [scale |-> try_scale, accepted |-> accepted,
                                  identity |-> (blended = IdentityRamp)])
      next == s.attempt + 1
      more == IF next < kMaxAttempts THEN "loop" ELSE "post"
  IN IF ~write_ok
     THEN [s EXCEPT !.high = try_scale, !.attempt = next, !.st = more, !.probes = probed]
     ELSE IF accepted
     THEN [s EXCEPT !.low = try_scale, !.last_good = blended, !.any_success = TRUE,
                    !.probes = probed,
                    !.attempt = IF Converged(try_scale, s.high) THEN s.attempt ELSE next,
                    !.st = IF Converged(try_scale, s.high) THEN "post" ELSE more]
     ELSE [s EXCEPT !.high = try_scale, !.attempt = next, !.st = more, !.probes = probed]

\* A record that never raises safe_scale above what it holds.
RememberLower(mons, m, try_scale) ==
  [mons EXCEPT ![m].safe_scale = Min(mons[m].safe_scale, try_scale)]

\* A record of the accepted scale that doubles it.
RememberDoubled(mons, m, try_scale) ==
  [mons EXCEPT ![m].safe_scale = Min(ScaleDen, 2 * try_scale)]

\* monitor.safe_scale = try_scale, on an accepted probe.
Remember(mons, m, try_scale) == [mons EXCEPT ![m].safe_scale = try_scale]

\* One iteration of the loop of applyRampAdaptive on monitor call.m.
Probe ==
  /\ call.pc = "search"
  /\ search[call.m].st = "loop"
  /\ LET m == call.m
         s == search[m]
         try_scale == TryScale(s)
     IN \E blended \in {enforceMonotonicity(
                           blendRampTowardIdentity(call.ideal, IdentityRamp, try_scale))} :
        \E a \in ProbeAnswers(m, try_scale) :
        \E shown \in {IF a.write = "honour" THEN blended ELSE screen[m]} :
        \E accepted \in {a.write # "fail" /\ verifyRamp(a.read_ok, shown, blended)} :
          /\ screen' = [screen EXCEPT ![m] = shown]
          /\ written' = [written EXCEPT ![m] = [kind |-> "probe", ramp |-> blended]]
          /\ search' = [search EXCEPT
                          ![m] = AfterProbe(s, try_scale, blended, a.write # "fail", accepted)]
          /\ monitors' = IF accepted THEN Remember(monitors, m, try_scale)
                         ELSE monitors
          /\ reply' = a
  /\ UNCHANGED << oracle, call, ret, nops, faults >>

\* A safe_scale left at 1.0 by a complete failure.
UnloweredScale == ScaleDen

\* monitor.safe_scale = 0.1 after a complete failure.
FallbackScale == ScaleDen \div 10

\* An end of applyRampAdaptive that never re-applies last_good.
NoReapply(s) ==
  IF s.any_success THEN NotWritten ELSE [kind |-> "fallback", ramp |-> IdentityRamp]

\* The ramp applyRampAdaptive writes after the loop, or "none".
FinalWrite(s) ==
  IF s.any_success
  THEN (IF s.high # s.low THEN [kind |-> "reapply", ramp |-> s.last_good]
        ELSE NotWritten)
  ELSE [kind |-> "fallback", ramp |-> IdentityRamp]

\* An accumulation that keeps only the last search's result.
LastResult(success, result) == result

\* The accumulation of applyAll: success stays true while every search succeeds.
Accumulate(success, result) == success /\ result

\* The end of applyRampAdaptive on monitor call.m, and what its caller does next.
Finish ==
  /\ call.pc = "search"
  /\ search[call.m].st = "post"
  /\ LET m == call.m
         s == search[m]
         w == FinalWrite(s)
         result == s.any_success
         success == Accumulate(call.success, result)
         mons == IF result THEN monitors
                 ELSE [monitors EXCEPT ![m].safe_scale = FallbackScale]
         done == [s EXCEPT !.st = "done", !.result = result]
     IN /\ \E a \in WriteAnswers :
             /\ w.kind = "none" => a = "honour"
             /\ faults' = faults + (IF a = "honour" THEN 0 ELSE 1)
             /\ faults' <= MaxFaults
             /\ screen' = IF w.kind # "none" /\ a = "honour"
                          THEN [screen EXCEPT ![m] = w.ramp] ELSE screen
        /\ written' = IF w.kind # "none" THEN [written EXCEPT ![m] = w] ELSE written
        /\ monitors' = mons
        /\ IF call.op = "applyAll" /\ m < Len(monitors)
           THEN /\ call' = [call EXCEPT !.m = m + 1, !.success = success]
                /\ search' = [search EXCEPT ![m] = done,
                                            ![m + 1] = StartSearch(mons[m + 1])]
                /\ ret' = ret
           ELSE /\ call' = [call EXCEPT !.pc = "idle", !.success = success]
                /\ search' = [search EXCEPT ![m] = done]
                /\ ret' = [op |-> call.op, arg |-> (IF call.op = "apply" THEN m ELSE 0),
                           value |-> success, resp |-> AllHonour]
  /\ reply' = NoReply
  /\ UNCHANGED << oracle, nops >>

\* A restore that marks the originals as used up.
ForgetOriginals(mons) ==
  [d \in 1 .. Len(mons) |-> [mons[d] EXCEPT !.has_original = FALSE]]

\* for (const auto& monitor : monitors_): the loops of restoreAll and restore
\* read the monitors through const references and leave them as they are.
AfterRestore(mons) == mons

\* A test that takes every enumerated display to have an original.
Registered(mons, d) == d <= Len(mons)

\* if (monitor.has_original)
HasOriginal(mons, d) == d <= Len(mons) /\ mons[d].has_original

\* A restoreAll that writes the identity ramp instead of the captured one.
RestoreIdentity(mons) ==
  [d \in Displays |->
     IF d <= Len(mons) /\ mons[d].has_original
     THEN [kind |-> "restore", ramp |-> IdentityRamp]
     ELSE NotWritten]

\* The setRamp calls of restoreAll, per display.
RestoreWrites(mons) ==
  [d \in Displays |->
     IF HasOriginal(mons, d) THEN [kind |-> "restore", ramp |-> mons[d].original_ramp]
     ELSE NotWritten]

\* The displays after those calls; answers[d] is the OS's answer on display d.
RestoreScreen(mons, scr, answers) ==
  [d \in Displays |->
     IF HasOriginal(mons, d) /\ answers[d] = "honour" THEN mons[d].original_ramp
     ELSE scr[d]]

\* A return value that reports the last write only.
LastWriteValue(mons, answers) ==
  ~(HasOriginal(mons, NDisplays) /\ answers[NDisplays] = "fail")

\* restoreAll's return value: success stays true unless a setRamp returns false.
RestoreAllValue(mons, answers) ==
  \A d \in Displays : HasOriginal(mons, d) => answers[d] # "fail"

\* Gamma::restoreAll
RestoreAll(answers) ==
  /\ call.pc = "idle"
  /\ nops < MaxOps
  /\ \A d \in Displays : ~HasOriginal(monitors, d) => answers[d] = "honour"
  /\ faults' = faults + Count({d \in Displays : answers[d] # "honour"})
  /\ faults' <= MaxFaults
  /\ screen' = RestoreScreen(monitors, screen, answers)
  /\ written' = RestoreWrites(monitors)
  /\ ret' = [op |-> "restoreAll", arg |-> 0,
             value |-> RestoreAllValue(monitors, answers), resp |-> answers]
  /\ monitors' = AfterRestore(monitors)
  /\ call' = IdleCall
  /\ search' = [d \in Displays |-> NoSearch]
  /\ nops' = nops + 1
  /\ reply' = NoReply
  /\ UNCHANGED oracle

\* Gamma::restore(monitor_index); index is 1-based here.
Restore(index, answer) ==
  /\ call.pc = "idle"
  /\ nops < MaxOps
  /\ ~HasOriginal(monitors, index) => answer = "honour"
  /\ faults' = faults + (IF answer = "honour" THEN 0 ELSE 1)
  /\ faults' <= MaxFaults
  /\ screen' = IF HasOriginal(monitors, index) /\ answer = "honour"
               THEN [screen EXCEPT ![index] = monitors[index].original_ramp]
               ELSE screen
  /\ written' = [d \in Displays |->
                   IF d = index THEN RestoreWrites(monitors)[d] ELSE NotWritten]
  /\ ret' = [op |-> "restore", arg |-> index,
             value |-> (HasOriginal(monitors, index) /\ answer # "fail"),
             resp |-> [d \in Displays |-> IF d = index THEN answer ELSE "honour"]]
  /\ monitors' = AfterRestore(monitors)
  /\ call' = IdleCall
  /\ search' = [d \in Displays |-> NoSearch]
  /\ nops' = nops + 1
  /\ reply' = NoReply
  /\ UNCHANGED oracle

Next ==
  \/ \E found \in {0, NDisplays}, cap \in [Displays -> BOOLEAN] :
        Initialize(found, cap) /\ UNCHANGED << rvars, avars, kvars, hvars >>
  \/ \E input \in ApplyInputs, limits \in [Displays -> Behaviours] :
        ApplyAll(input, limits) /\ UNCHANGED << rvars, avars, kvars, hvars >>
  \/ \E index \in 1 .. (NDisplays + 1), input \in {PowerInput},
        limits \in [Displays -> Behaviours] :
        Apply(index, input, limits) /\ UNCHANGED << rvars, avars, kvars, hvars >>
  \/ Probe /\ UNCHANGED << rvars, avars, kvars, hvars >>
  \/ Finish /\ UNCHANGED << rvars, avars, kvars, hvars >>
  \/ \E answers \in [Displays -> WriteAnswers] : RestoreAll(answers) /\ UNCHANGED << rvars, avars, kvars, hvars >>
  \/ \E index \in 1 .. (NDisplays + 1), answer \in WriteAnswers :
        Restore(index, answer) /\ UNCHANGED << rvars, avars, kvars, hvars >>

Init == EngineInit /\ BenchIdle /\ AppIdle /\ KeysIdle /\ HistIdle

Spec == Init /\ [][Next]_vars

(* ---------------- the pure functions on their own ---------------- *)
\* Channels handed to enforceMonotonicity: flat at 0, at 65534 and at 65535,
\* falling, and rising by one up to saturation.
Flat(w) == Array([k \in 1 .. RampSize |-> w])
Falling == Array([k \in 1 .. RampSize |-> WordMax - 257 * (k - 1)])
Saturating == Array([k \in 1 .. RampSize |-> Min(WordMax, WordMax - 100 + k)])

\* The ramps handed to enforceMonotonicity: the samples of every bench curve
\* before the pass, and ramps whose channels differ.
RawRamps ==
  {Gray(Samples(a.curve, a.strength, a.custom_curve)) : a \in BenchArgs}
    \cup {FactoryRamp(2),
          [red |-> Flat(0), green |-> Flat(WordMax - 1), blue |-> Flat(WordMax)],
          [red |-> Falling, green |-> Saturating, blue |-> IdentityRamp.blue]}

\* Sample positions of the Custom curve: 0, 0.25, 0.5, 0.75, 1.
Quarter == One \div 4
SampleXs == {q * Quarter : q \in 0 .. 4}

RampInit ==
  /\ EngineInit
  /\ AppIdle
  /\ KeysIdle
  /\ HistIdle
  /\ rb_ramp = IdentityRamp
  /\ rb_y = 0
  /\ \/ /\ rb_pc = "args"
        /\ rb_args \in BenchArgs
        /\ rb_raw = IdentityRamp
        /\ rb_x = 0
     \/ /\ rb_pc = "raw"
        /\ rb_args = LinearArgs
        /\ rb_raw \in RawRamps
        /\ rb_x = 0
     \/ /\ rb_pc = "point"
        /\ rb_args \in {a \in BenchArgs : a.curve = "Custom"}
        /\ rb_raw = IdentityRamp
        /\ rb_x \in SampleXs

Build ==
  /\ rb_pc = "args"
  /\ rb_pc' = "built"
  /\ rb_ramp' = buildRamp(rb_args.curve, rb_args.strength, rb_args.custom_curve)
  /\ UNCHANGED << rb_args, rb_raw, rb_x, rb_y, evars, avars, kvars, hvars >>

\* Gamma::enforceMonotonicity on a ramp of its own.
Enforce ==
  /\ rb_pc = "raw"
  /\ rb_pc' = "enforced"
  /\ rb_ramp' = enforceMonotonicity(rb_raw)
  /\ UNCHANGED << rb_args, rb_raw, rb_x, rb_y, evars, avars, kvars, hvars >>

\* The Custom case of buildRamp for one sample position.
Interpolate ==
  /\ rb_pc = "point"
  /\ rb_pc' = "valued"
  /\ rb_y' = CustomCurve(rb_args.custom_curve, rb_x)
  /\ UNCHANGED << rb_args, rb_raw, rb_x, rb_ramp, evars, avars, kvars, hvars >>

RampNext == Build \/ Enforce \/ Interpolate

SpecRamp == RampInit /\ [][RampNext]_vars

(* ---------------- the application: WinMain, App, CrashHandler ---------------- *)
\* The engine is seen here through its interface only: applyAll and restoreAll
\* return a value the application cannot predict (drawn from BOOLEAN), and
\* modified records that an applyAll has run since the originals were restored.
MaxEvents == 4

MinGamma == GammaDen \div 10
MaxGamma == 9 * GammaDen
GAMMA_STEP == GammaDen \div 10

\* What the LastValue line of the configuration file may hold: a number, or
\* text std::stod throws on.
ConfigValues ==
  {[parses |-> FALSE, value |-> 0]}
    \cup {[parses |-> TRUE, value |-> v] :
            v \in {0 - 5 * GammaDen, GammaDen, (22 * GammaDen) \div 10, 20 * GammaDen}}

\* Config::load, the LastValue line: the parsed number brought into
\* [0.1, 9.0], or 1.0 when it does not parse.
LoadLastGamma(text) ==
  IF ~text.parses THEN GammaDen
  ELSE IF text.value < MinGamma THEN MinGamma
  ELSE IF text.value > MaxGamma THEN MaxGamma
  ELSE text.value

ToneCurves == {"Power", "Linear", "Cinema"}

\* Arguments of App::setGamma coming from the window.
GammaValues ==
  {0 - 5 * GammaDen, GammaDen \div 20, (22 * GammaDen) \div 10, 9 * GammaDen, 20 * GammaDen}

AppStart ==
  /\ wm_pc = "start"
  /\ AppDefaults

\* A setGamma that passes its argument on as it came.
Unclamped(value) == value

\* value = std::clamp(value, 0.1, 9.0);
ClampGamma(value) ==
  IF value < MinGamma THEN MinGamma ELSE IF value > MaxGamma THEN MaxGamma ELSE value

\* SetUnhandledExceptionFilter(CrashHandler);
SetFilter ==
  /\ wm_pc = "start"
  /\ wm_pc' = "create"
  /\ filter' = TRUE
  /\ UNCHANGED << g_crash_gamma, current_gamma_, tone_curve_, gamma_enabled_,
                  gamma_before_disable_, modified, last_apply, event, nevents, crash >>

\* Window class, window, CreateDeviceD3D, ImGui set-up.
CreateDevice(ok) ==
  /\ wm_pc = "create"
  /\ wm_pc' = IF ok THEN "init" ELSE "exited"
  /\ UNCHANGED << filter, g_crash_gamma, current_gamma_, tone_curve_, gamma_enabled_,
                  gamma_before_disable_, modified, last_apply, event, nevents, crash >>

\* App::initialize up to the saved curve: load the configuration, initialize
\* the engine (its result only sets a status text), apply the saved curve.
LoadAndApply(text, curve, ok) ==
  /\ wm_pc = "init"
  /\ wm_pc' = "tray"
  /\ current_gamma_' = LoadLastGamma(text)
  /\ tone_curve_' = curve
  /\ IF current_gamma_' # GammaDen \/ curve # "Power"
     THEN /\ last_apply' = [called |-> TRUE, curve |-> curve,
                             strength |-> current_gamma_', ok |-> ok]
          /\ modified' = TRUE
     ELSE /\ ok
          /\ UNCHANGED << last_apply, modified >>
  /\ UNCHANGED << filter, g_crash_gamma, gamma_enabled_, gamma_before_disable_,
                  event, nevents, crash >>

\* The rest of App::initialize: tray icon, hotkeys, histogram capture.
FinishInitialize ==
  /\ wm_pc = "tray"
  /\ wm_pc' = "enable"
  /\ UNCHANGED << filter, g_crash_gamma, current_gamma_, tone_curve_, gamma_enabled_,
                  gamma_before_disable_, modified, last_apply, event, nevents, crash >>

\* g_crash_gamma = &app.getGammaRef();
EnableCrashSafety ==
  /\ wm_pc = "enable"
  /\ wm_pc' = "loop"
  /\ g_crash_gamma' = "gamma_"
  /\ UNCHANGED << filter, current_gamma_, tone_curve_, gamma_enabled_,
                  gamma_before_disable_, modified, last_apply, event, nevents, crash >>

\* A handler run by the message loop.
Handle(name, arg) ==
  /\ wm_pc = "loop"
  /\ nevents < MaxEvents
  /\ nevents' = nevents + 1
  /\ event' = [name |-> name, arg |-> arg,
                gamma |-> current_gamma_, enabled |-> gamma_enabled_]
  /\ UNCHANGED << wm_pc, filter, g_crash_gamma, crash >>

\* The body of App::setGamma(value); ok is what applyAll returns. The curve
\* passed is tone_curve_ as the caller left it.
setGamma(value, ok) ==
  /\ current_gamma_' = ClampGamma(value)
  /\ last_apply' = [called |-> TRUE, curve |-> tone_curve_',
                     strength |-> ClampGamma(value), ok |-> ok]
  /\ modified' = TRUE

\* App::setGamma called from the window.
SetGamma(value, ok) ==
  /\ Handle("setGamma", value)
  /\ UNCHANGED << tone_curve_, gamma_enabled_, gamma_before_disable_ >>
  /\ setGamma(value, ok)

\* App::adjustGamma(delta), from the hotkeys.
AdjustGamma(delta, ok) ==
  /\ Handle("adjustGamma", delta)
  /\ UNCHANGED << tone_curve_, gamma_enabled_, gamma_before_disable_ >>
  /\ setGamma(current_gamma_ + delta, ok)

\* App::setToneCurve(curve)
SetToneCurve(curve, ok) ==
  /\ Handle("setToneCurve", 0)
  /\ tone_curve_' = curve
  /\ setGamma(current_gamma_, ok)
  /\ UNCHANGED << gamma_enabled_, gamma_before_disable_ >>

\* App::resetGamma; restored is what restoreAll returns.
ResetGamma(restored, ok) ==
  /\ Handle("resetGamma", 0)
  /\ current_gamma_' = GammaDen
  /\ IF restored
     THEN /\ ok
          /\ modified' = FALSE
          /\ UNCHANGED last_apply
     ELSE /\ last_apply' = [called |-> TRUE, curve |-> tone_curve_,
                             strength |-> GammaDen, ok |-> ok]
          /\ modified' = TRUE
  /\ UNCHANGED << tone_curve_, gamma_enabled_, gamma_before_disable_ >>

\* App::toggleGamma
ToggleGamma(ok) ==
  /\ Handle("toggleGamma", 0)
  /\ IF gamma_enabled_
     THEN /\ ok
          /\ gamma_before_disable_' = current_gamma_
          /\ gamma_enabled_' = FALSE
          /\ modified' = FALSE
          /\ UNCHANGED << current_gamma_, last_apply >>
     ELSE /\ gamma_enabled_' = TRUE
          /\ last_apply' = [called |-> TRUE, curve |-> tone_curve_,
                             strength |-> gamma_before_disable_, ok |-> ok]
          /\ current_gamma_' = gamma_before_disable_
          /\ modified' = TRUE
          /\ UNCHANGED gamma_before_disable_
  /\ UNCHANGED tone_curve_

\* App::requestExit, WM_QUIT: the loop ends.
RequestExit ==
  /\ wm_pc = "loop"
  /\ wm_pc' = "shutdown"
  /\ UNCHANGED << filter, g_crash_gamma, current_gamma_, tone_curve_, gamma_enabled_,
                  gamma_before_disable_, modified, last_apply, event, nevents, crash >>

\* App::shutdown: save the configuration, gamma_.restoreAll().
Shutdown ==
  /\ wm_pc = "shutdown"
  /\ wm_pc' = "exited"
  /\ modified' = FALSE
  /\ UNCHANGED << filter, g_crash_gamma, current_gamma_, tone_curve_, gamma_enabled_,
                  gamma_before_disable_, last_apply, event, nevents, crash >>

Running == {"start", "create", "init", "tray", "enable", "loop", "shutdown"}

\* An unhandled exception anywhere in WinMain: the filter, if installed, runs
\* CrashHandler, which restores through g_crash_gamma if it is not null.
Fault ==
  /\ wm_pc \in Running
  /\ wm_pc' = "crashed"
  /\ LET restored == filter /\ g_crash_gamma # "nullptr"
     IN /\ crash' = [modified |-> modified, handled |-> filter, restored |-> restored]
        /\ modified' = IF restored THEN FALSE ELSE modified
  /\ UNCHANGED << filter, g_crash_gamma, current_gamma_, tone_curve_, gamma_enabled_,
                  gamma_before_disable_, last_apply, event, nevents >>

AppNext ==
  \/ SetFilter /\ UNCHANGED << evars, rvars, kvars, hvars >>
  \/ \E ok \in BOOLEAN : CreateDevice(ok) /\ UNCHANGED << evars, rvars, kvars, hvars >>
  \/ \E text \in ConfigValues, curve \in ToneCurves, ok \in BOOLEAN :
        LoadAndApply(text, curve, ok) /\ UNCHANGED << evars, rvars, kvars, hvars >>
  \/ FinishInitialize /\ UNCHANGED << evars, rvars, kvars, hvars >>
  \/ EnableCrashSafety /\ UNCHANGED << evars, rvars, kvars, hvars >>
  \/ \E value \in GammaValues, ok \in BOOLEAN :
        SetGamma(value, ok) /\ UNCHANGED << evars, rvars, kvars, hvars >>
  \/ \E delta \in {GAMMA_STEP, 0 - GAMMA_STEP}, ok \in BOOLEAN :
        AdjustGamma(delta, ok) /\ UNCHANGED << evars, rvars, kvars, hvars >>
  \/ \E curve \in ToneCurves, ok \in BOOLEAN :
        SetToneCurve(curve, ok) /\ UNCHANGED << evars, rvars, kvars, hvars >>
  \/ \E restored \in BOOLEAN, ok \in BOOLEAN :
        ResetGamma(restored, ok) /\ UNCHANGED << evars, rvars, kvars, hvars >>
  \/ \E ok \in BOOLEAN : ToggleGamma(ok) /\ UNCHANGED << evars, rvars, kvars, hvars >>
  \/ RequestExit /\ UNCHANGED << evars, rvars, kvars, hvars >>
  \/ Shutdown /\ UNCHANGED << evars, rvars, kvars, hvars >>
  \/ Fault /\ UNCHANGED << evars, rvars, kvars, hvars >>

AppInit == EngineInit /\ BenchIdle /\ AppStart /\ KeysIdle /\ HistIdle

SpecApp == AppInit /\ [][AppNext]_vars

(* ---------------- the global hotkeys ---------------- *)
\* Keystrokes another application may hold.
Contested == {"G", "F9"}

\* Binding sets the settings window may hand to setHotkeys, and the
\* configuration file may hold: the defaults, one binding moved to F9, and two
\* actions on the same keystroke.
BindingSets ==
  {DefaultBindings}
    \cup {[DefaultBindings EXCEPT ![id] = "F9"] : id \in Ids}
    \cup {[DefaultBindings EXCEPT !.decrease = "Up"]}

\* RegisterHotKey(hwnd_, id, ...) != 0: the OS refuses a keystroke that is
\* already registered, by another application or by this window.
registerSingle(os, id, key) ==
  IF key \in taken \/ \E j \in Ids : os[j] = key THEN os ELSE [os EXCEPT ![id] = key]

\* The four registerSingle calls in the order of the code.
RegisterAll(os, b) ==
  LET o1 == registerSingle(os, "increase", b.increase)
      o2 == registerSingle(o1, "decrease", b.decrease)
      o3 == registerSingle(o2, "reset", b.reset)
  IN registerSingle(o3, "toggle", b.toggle)

\* res.increase_ok && res.decrease_ok && res.reset_ok && res.toggle_ok, read
\* off the table the four calls leave.
AllOk(os, b) == \A id \in Ids : os[id] = b[id]

KeysStart ==
  /\ hk_pc = "init"
  /\ taken \in SUBSET Contested
  /\ hwnd_ = "nullptr"
  /\ registered_ = FALSE
  /\ os_hotkeys = NoHotkeys
  /\ hk_ret = NoKeyCall
  /\ bindings = DefaultBindings
  /\ config_hotkeys \in BindingSets

\* Hotkeys::initialize(hwnd, config_.hotkey_increase, ...), from App::initialize.
InitializeHotkeys ==
  /\ hk_pc = "init"
  /\ hk_pc' = "loop"
  /\ IF registered_
     THEN /\ hk_ret' = [op |-> "initialize", success |-> TRUE]
          /\ UNCHANGED << hwnd_, bindings, os_hotkeys, registered_ >>
     ELSE /\ hwnd_' = "hwnd"
          /\ bindings' = config_hotkeys
          /\ os_hotkeys' = RegisterAll(os_hotkeys, config_hotkeys)
          /\ registered_' = TRUE
          /\ hk_ret' = [op |-> "initialize", success |-> AllOk(os_hotkeys', config_hotkeys)]
  /\ UNCHANGED << config_hotkeys, taken >>

\* Hotkeys::reregister: what it leaves in the OS table.
reregister(b) == RegisterAll(NoHotkeys, b)

\* App::setHotkeys(increase, decrease, reset, toggle), with Hotkeys::reregister.
SetHotkeys(b) ==
  /\ hk_pc = "loop"
  /\ IF hwnd_ = "nullptr"
     THEN /\ hk_ret' = [op |-> "setHotkeys", success |-> FALSE]
          /\ UNCHANGED << os_hotkeys, bindings, config_hotkeys >>
     ELSE /\ os_hotkeys' = reregister(b)
          /\ bindings' = b
          /\ hk_ret' = [op |-> "setHotkeys", success |-> AllOk(os_hotkeys', b)]
          /\ config_hotkeys' = IF hk_ret'.success THEN b ELSE config_hotkeys
  /\ UNCHANGED << hwnd_, registered_, taken, hk_pc >>

\* Another application registers a keystroke nobody holds.
OtherAppRegisters(key) ==
  /\ hk_pc \in {"init", "loop"}
  /\ key \notin taken
  /\ \A id \in Ids : os_hotkeys[id] # key
  /\ taken' = taken \cup {key}
  /\ UNCHANGED << config_hotkeys, bindings, hwnd_, registered_, os_hotkeys, hk_pc, hk_ret >>

\* Another application gives a keystroke up.
OtherAppUnregisters(key) ==
  /\ hk_pc \in {"init", "loop"}
  /\ key \in taken
  /\ taken' = taken \ {key}
  /\ UNCHANGED << config_hotkeys, bindings, hwnd_, registered_, os_hotkeys, hk_pc, hk_ret >>

\* Hotkeys::shutdown, from App::shutdown.
ShutdownHotkeys ==
  /\ hk_pc = "loop"
  /\ hk_pc' = "exited"
  /\ hk_ret' = [op |-> "shutdown", success |-> TRUE]
  /\ IF ~registered_ \/ hwnd_ = "nullptr"
     THEN UNCHANGED << os_hotkeys, registered_ >>
     ELSE /\ os_hotkeys' = NoHotkeys
          /\ registered_' = FALSE
  /\ UNCHANGED << config_hotkeys, bindings, hwnd_, taken >>

KeysNext ==
  \/ InitializeHotkeys /\ UNCHANGED << evars, rvars, avars, hvars >>
  \/ \E b \in BindingSets : SetHotkeys(b) /\ UNCHANGED << evars, rvars, avars, hvars >>
  \/ \E key \in Contested : OtherAppRegisters(key) /\ UNCHANGED << evars, rvars, avars, hvars >>
  \/ \E key \in Contested : OtherAppUnregisters(key) /\ UNCHANGED << evars, rvars, avars, hvars >>
  \/ ShutdownHotkeys /\ UNCHANGED << evars, rvars, avars, hvars >>

KeysInit == EngineInit /\ BenchIdle /\ AppIdle /\ KeysStart /\ HistIdle

SpecKeys == KeysInit /\ [][KeysNext]_vars

(* ---------------- the screen histogram capture ---------------- *)
\* Histograms captureScreen may publish before the model stops counting.
MaxCaptures == 2

\* A lock that excludes nobody.
NoExclusion(thread) == TRUE

\* std::lock_guard<std::mutex> lock(histogram_mutex_) can be entered.
Lockable(thread) == histogram_mutex_ = "free"

HistStart == main_pc = "init" /\ HistDefaults

\* ScreenHistogramCapture::start
Start ==
  /\ main_pc = "init"
  /\ main_pc' = "loop"
  /\ IF running_
     THEN UNCHANGED << running_, capture_thread_, cap_pc >>
     ELSE /\ running_' = TRUE
          /\ capture_thread_' = "running"
          /\ cap_pc' = "test"
  /\ UNCHANGED << enabled_, histogram_, histogram_mutex_, cap_result, ncaptures, rd_pc, snapshot >>

\* setEnabled(!isEnabled()), from the window.
SetEnabled ==
  /\ main_pc = "loop"
  /\ enabled_' = ~enabled_
  /\ UNCHANGED << running_, histogram_, histogram_mutex_, capture_thread_, cap_pc, cap_result,
                  ncaptures, rd_pc, snapshot, main_pc >>

\* stop(): running_ = false;
StopFlag ==
  /\ main_pc \in {"init", "loop"}
  /\ main_pc' = "join"
  /\ running_' = FALSE
  /\ UNCHANGED << enabled_, histogram_, histogram_mutex_, capture_thread_, cap_pc, cap_result,
                  ncaptures, rd_pc, snapshot >>

\* stop(): if (capture_thread_.joinable()) capture_thread_.join(); and return.
Join ==
  /\ main_pc = "join"
  /\ main_pc' = "stopped"
  /\ IF capture_thread_ = "running"
     THEN /\ cap_pc = "done"
          /\ capture_thread_' = "joined"
     ELSE UNCHANGED capture_thread_
  /\ UNCHANGED << running_, enabled_, histogram_, histogram_mutex_, cap_pc, cap_result,
                  ncaptures, rd_pc, snapshot >>

\* ~ScreenHistogramCapture: stop() once more; the thread is not joinable now.
Destructor ==
  /\ main_pc = "stopped"
  /\ capture_thread_ # "running"
  /\ main_pc' = "destroyed"
  /\ running_' = FALSE
  /\ UNCHANGED << enabled_, histogram_, histogram_mutex_, capture_thread_, cap_pc, cap_result,
                  ncaptures, rd_pc, snapshot >>

\* captureThread: while (running_)
LoopTest ==
  /\ cap_pc = "test"
  /\ cap_pc' = IF running_ THEN "if" ELSE "done"
  /\ UNCHANGED << running_, enabled_, histogram_, histogram_mutex_, capture_thread_, cap_result,
                  ncaptures, rd_pc, snapshot, main_pc >>

\* captureThread: if (enabled_)
IfEnabled ==
  /\ cap_pc = "if"
  /\ cap_pc' = IF enabled_ THEN "capture" ELSE "sleep"
  /\ UNCHANGED << running_, enabled_, histogram_, histogram_mutex_, capture_thread_, cap_result,
                  ncaptures, rd_pc, snapshot, main_pc >>

\* captureScreen up to the publication: the local result is computed, or the
\* function returns early because the bitmap could not be created.
CaptureScreen(ok) ==
  /\ cap_pc = "capture"
  /\ IF ok
     THEN /\ ncaptures < MaxCaptures
          /\ cap_result' = ncaptures + 1
          /\ cap_pc' = "lock"
     ELSE /\ cap_pc' = "sleep"
          /\ UNCHANGED cap_result
  /\ UNCHANGED << running_, enabled_, histogram_, histogram_mutex_, capture_thread_,
                  ncaptures, rd_pc, snapshot, main_pc >>

\* captureScreen: std::lock_guard<std::mutex> lock(histogram_mutex_);
CapLock ==
  /\ cap_pc = "lock"
  /\ Lockable("capture")
  /\ histogram_mutex_' = "capture"
  /\ cap_pc' = "write_luminance"
  /\ UNCHANGED << running_, enabled_, histogram_, capture_thread_, cap_result,
                  ncaptures, rd_pc, snapshot, main_pc >>

\* histogram_ = result; the structure is copied member by member.
CapWriteLuminance ==
  /\ cap_pc = "write_luminance"
  /\ histogram_' = [histogram_ EXCEPT !.luminance = cap_result]
  /\ cap_pc' = "write_max"
  /\ UNCHANGED << running_, enabled_, histogram_mutex_, capture_thread_, cap_result,
                  ncaptures, rd_pc, snapshot, main_pc >>

CapWriteMax ==
  /\ cap_pc = "write_max"
  /\ histogram_' = [histogram_ EXCEPT !.max_value = cap_result]
  /\ cap_pc' = "unlock"
  /\ UNCHANGED << running_, enabled_, histogram_mutex_, capture_thread_, cap_result,
                  ncaptures, rd_pc, snapshot, main_pc >>

\* The end of the lock_guard's scope: the histogram is published.
CapUnlock ==
  /\ cap_pc = "unlock"
  /\ histogram_mutex_' = "free"
  /\ ncaptures' = ncaptures + 1
  /\ cap_pc' = "sleep"
  /\ UNCHANGED << running_, enabled_, histogram_, capture_thread_, cap_result,
                  rd_pc, snapshot, main_pc >>

\* Sleep(capture_interval_ms_);
Sleep ==
  /\ cap_pc = "sleep"
  /\ cap_pc' = "test"
  /\ UNCHANGED << running_, enabled_, histogram_, histogram_mutex_, capture_thread_, cap_result,
                  ncaptures, rd_pc, snapshot, main_pc >>

\* getHistogram: std::lock_guard<std::mutex> lock(histogram_mutex_);
RdLock(r) ==
  /\ main_pc \in {"init", "loop", "join", "stopped"}
  /\ rd_pc[r] \in {"idle", "returned"}
  /\ Lockable(r)
  /\ histogram_mutex_' = r
  /\ rd_pc' = [rd_pc EXCEPT ![r] = "copy_luminance"]
  /\ UNCHANGED << running_, enabled_, histogram_, capture_thread_, cap_pc, cap_result,
                  ncaptures, snapshot, main_pc >>

\* return histogram_; the copy is made member by member.
RdCopyLuminance(r) ==
  /\ rd_pc[r] = "copy_luminance"
  /\ snapshot' = [snapshot EXCEPT ![r].luminance = histogram_.luminance]
  /\ rd_pc' = [rd_pc EXCEPT ![r] = "copy_max"]
  /\ UNCHANGED << running_, enabled_, histogram_, histogram_mutex_, capture_thread_, cap_pc,
                  cap_result, ncaptures, main_pc >>

RdCopyMax(r) ==
  /\ rd_pc[r] = "copy_max"
  /\ snapshot' = [snapshot EXCEPT ![r].max_value = histogram_.max_value]
  /\ rd_pc' = [rd_pc EXCEPT ![r] = "unlock"]
  /\ UNCHANGED << running_, enabled_, histogram_, histogram_mutex_, capture_thread_, cap_pc,
                  cap_result, ncaptures, main_pc >>

\* The lock_guard is released and getHistogram returns the copy.
RdReturn(r) ==
  /\ rd_pc[r] = "unlock"
  /\ histogram_mutex_' = "free"
  /\ rd_pc' = [rd_pc EXCEPT ![r] = "returned"]
  /\ UNCHANGED << running_, enabled_, histogram_, capture_thread_, cap_pc, cap_result,
                  ncaptures, snapshot, main_pc >>

\* The steps of the capture thread that wait for nothing.
CaptureRuns ==
  LoopTest \/ IfEnabled \/ (\E ok \in BOOLEAN : CaptureScreen(ok))
    \/ CapWriteLuminance \/ CapWriteMax \/ CapUnlock \/ Sleep

\* The steps of a getHistogram caller that holds the mutex.
ReaderRuns(r) == RdCopyLuminance(r) \/ RdCopyMax(r) \/ RdReturn(r)

HistNext ==
  \/ Start /\ UNCHANGED << evars, rvars, avars, kvars >>
  \/ SetEnabled /\ UNCHANGED << evars, rvars, avars, kvars >>
  \/ StopFlag /\ UNCHANGED << evars, rvars, avars, kvars >>
  \/ Join /\ UNCHANGED << evars, rvars, avars, kvars >>
  \/ Destructor /\ UNCHANGED << evars, rvars, avars, kvars >>
  \/ LoopTest /\ UNCHANGED << evars, rvars, avars, kvars >>
  \/ IfEnabled /\ UNCHANGED << evars, rvars, avars, kvars >>
  \/ \E ok \in BOOLEAN : CaptureScreen(ok) /\ UNCHANGED << evars, rvars, avars, kvars >>
  \/ CapLock /\ UNCHANGED << evars, rvars, avars, kvars >>
  \/ CapWriteLuminance /\ UNCHANGED << evars, rvars, avars, kvars >>
  \/ CapWriteMax /\ UNCHANGED << evars, rvars, avars, kvars >>
  \/ CapUnlock /\ UNCHANGED << evars, rvars, avars, kvars >>
  \/ Sleep /\ UNCHANGED << evars, rvars, avars, kvars >>
  \/ \E r \in Readers : RdLock(r) /\ UNCHANGED << evars, rvars, avars, kvars >>
  \/ \E r \in Readers : RdCopyLuminance(r) /\ UNCHANGED << evars, rvars, avars, kvars >>
  \/ \E r \in Readers : RdCopyMax(r) /\ UNCHANGED << evars, rvars, avars, kvars >>
  \/ \E r \in Readers : RdReturn(r) /\ UNCHANGED << evars, rvars, avars, kvars >>

HistInit == EngineInit /\ BenchIdle /\ AppIdle /\ KeysIdle /\ HistStart

SpecHist == HistInit /\ [][HistNext]_vars

\* Scheduling: a thread that can run does run (the capture thread's Sleep and
\* its GDI calls return, a getHistogram caller finishes its copy and lets the
\* mutex go, join returns once the thread has ended), and a thread that waits
\* for the mutex gets it if it is free again and again.
HistFairness ==
  /\ WF_vars(CaptureRuns /\ UNCHANGED << evars, rvars, avars, kvars >>)
  /\ SF_vars(CapLock /\ UNCHANGED << evars, rvars, avars, kvars >>)
  /\ \A r \in Readers : WF_vars(ReaderRuns(r) /\ UNCHANGED << evars, rvars, avars, kvars >>)
  /\ WF_vars(Join /\ UNCHANGED << evars, rvars, avars, kvars >>)

SpecHistFair == SpecHist /\ HistFairness

(* ================= properties ================= *)
NonDecreasing(channel) == \A k \in 2 .. RampSize : channel[k] >= channel[k - 1]
InRange(channel) == \A k \in 1 .. RampSize : channel[k] \in 0 .. WordMax

\* C1: for every curve kind, every strength and every Custom point list, each
\* channel of the ramp buildRamp returns is non-decreasing (entry[i] >=
\* entry[i-1] for i in 1..255) and every entry lies in [0, 65535].
BuildRampMonotone ==
  rb_pc = "built" =>
    \A c \in Channels : NonDecreasing(rb_ramp[c]) /\ InRange(rb_ramp[c])

\* A Custom curve whose samples decrease somewhere, so that enforceMonotonicity
\* had entries to raise.
BuildRampMonotoneWitness ==
  /\ rb_pc = "built"
  /\ rb_args.curve = "Custom"
  /\ ~NonDecreasing(Samples(rb_args.curve, rb_args.strength, rb_args.custom_curve))
  /\ \A c \in Channels : NonDecreasing(rb_ramp[c])

(* ---------------- the adaptive search ---------------- *)
Done(d) == search[d].st = "done"
ProbeCount(d) == Len(search[d].probes)
LastProbe(d) == search[d].probes[ProbeCount(d)]
AllRejected(d) == \A k \in 1 .. ProbeCount(d) : ~search[d].probes[k].accepted

\* The oracle of C2: the probes accepted are exactly those of scale <= 0.6.
AcceptsUpTo06(d) ==
  \A k \in 1 .. ProbeCount(d) :
    search[d].probes[k].accepted <=> (search[d].probes[k].scale * 10 <= 6 * ScaleDen)

\* scale in [0.58, 0.62]
InBand(scale) == scale * 100 >= 58 * ScaleDen /\ scale * 100 <= 62 * ScaleDen

\* C2 as stated: against an oracle that accepts exactly the scales <= 0.6, one
\* call of the adaptive apply uses at most 6 probes, returns success and leaves
\* the display's safe_scale in [0.58, 0.62], whatever safe_scale it starts from.
ConvergesFromAnyStart ==
  \A d \in Displays :
    (Done(d) /\ AcceptsUpTo06(d)) =>
      /\ ProbeCount(d) <= kMaxAttempts
      /\ search[d].result
      /\ InBand(monitors[d].safe_scale)

\* C2 amended: the same, for a call that starts from safe_scale = 1.0 (a
\* display that has not been searched since it was enumerated).
ConvergesFromFullScale ==
  \A d \in Displays :
    (Done(d) /\ AcceptsUpTo06(d) /\ search[d].start_safe = ScaleDen) =>
      /\ ProbeCount(d) <= kMaxAttempts
      /\ search[d].result
      /\ InBand(monitors[d].safe_scale)

\* The bisection from 1.0 has run its six probes (1.0, 0.5, 0.75, 0.625,
\* 0.5625, 0.59375) and stands at 0.59375.
ConvergesFromFullScaleWitness ==
  \E d \in Displays :
    /\ Done(d) /\ AcceptsUpTo06(d) /\ search[d].start_safe = ScaleDen
    /\ ProbeCount(d) = kMaxAttempts
    /\ ~search[d].probes[1].accepted /\ search[d].probes[2].accepted
    /\ monitors[d].safe_scale * 32 = 19 * ScaleDen

\* C3: when every probe of a call is rejected (hard write failure or read-back
\* mismatch), the last ramp written to the display is the identity ramp, written
\* as the fallback and not as a probe, the display's safe_scale is 0.1, and the
\* call returns failure.
FallsBackToIdentity ==
  \A d \in Displays :
    (Done(d) /\ AllRejected(d)) =>
      /\ written[d] = [kind |-> "fallback", ramp |-> IdentityRamp]
      /\ monitors[d].safe_scale * 10 = ScaleDen
      /\ ~search[d].result

\* Six probes against a display that rejects everything, then the fallback.
FallsBackToIdentityWitness ==
  \E d \in Displays :
    /\ Done(d) /\ oracle[d].limit = RejectAll
    /\ ProbeCount(d) = kMaxAttempts /\ AllRejected(d)
    /\ written[d].kind = "fallback"

\* The scale of the most recent accepted probe of display d's search.
LastAcceptedScale(d) ==
  LET at == {k \in 1 .. ProbeCount(d) : search[d].probes[k].accepted}
      last == CHOOSE k \in at : \A j \in at : j <= k
  IN search[d].probes[last].scale

\* C4: whenever the adaptive apply returns success for a display, the last ramp
\* it wrote to that display is last_good, the blended and monotonicity-enforced
\* ramp of the most recent accepted probe; it is the ramp of the last probe only
\* if that probe was accepted.
SuccessLeavesLastGood ==
  \A d \in Displays :
    (Done(d) /\ search[d].result) =>
      /\ written[d].ramp = search[d].last_good
      /\ search[d].last_good =
           enforceMonotonicity(
             blendRampTowardIdentity(call.ideal, IdentityRamp, LastAcceptedScale(d)))
      /\ written[d].kind \in {"probe", "reapply"}
      /\ written[d].kind = "probe" => LastProbe(d).accepted

\* A successful search whose last probe was rejected: last_good was written
\* again, and it differs from the ramp of that last probe.
SuccessLeavesLastGoodWitness ==
  \E d \in Displays :
    /\ Done(d) /\ search[d].result
    /\ ~LastProbe(d).accepted
    /\ written[d].kind = "reapply"
    /\ written[d].ramp #
         enforceMonotonicity(
           blendRampTowardIdentity(call.ideal, IdentityRamp, LastProbe(d).scale))

\* Display d's search issues a probe in this step.
NewProbe(d) == Len(search'[d].probes) > Len(search[d].probes)

\* high - low < 0.02 in display d's search.
Narrow(d) == (search[d].high - search[d].low) * 50 < ScaleDen

\* C5 as stated: the loop issues no further probe once high - low < 0.02,
\* whichever outcome produced that interval, and never more than 6 probes for
\* one display in one call.
StopsOnceNarrow ==
  [][\A d \in Displays :
       NewProbe(d) => (~Narrow(d) /\ Len(search'[d].probes) <= kMaxAttempts)]_vars

\* C5 amended: the loop issues no further probe once an accepted probe has left
\* high - low < 0.02 (after a rejection it goes on while attempts remain), and
\* never more than 6 probes for one display in one call.
StopsOnceAcceptedNarrow ==
  [][\A d \in Displays :
       NewProbe(d) =>
         /\ ~(ProbeCount(d) > 0 /\ LastProbe(d).accepted /\ Narrow(d))
         /\ Len(search'[d].probes) <= kMaxAttempts]_vars

\* A search that stopped before its sixth probe, on an accepted probe that left
\* the interval narrower than 0.02.
StopsOnceAcceptedNarrowWitness ==
  \E d \in Displays :
    /\ Done(d)
    /\ ProbeCount(d) < kMaxAttempts
    /\ LastProbe(d).accepted /\ Narrow(d)

(* ---------------- restore, initialize, applyAll ---------------- *)
Enumerated == 1 .. Len(monitors)
JustReturned(op) == call.pc = "idle" /\ ret.op = op

\* C6: restoreAll returns false whenever an enumerated display has no captured
\* original ramp (such displays are skipped, nothing is written to them), and
\* restore(index) on such a display returns false without writing.
MissingOriginalReported ==
  /\ JustReturned("restoreAll") =>
       \A d \in Enumerated :
         ~monitors[d].has_original => (written[d] = NotWritten /\ ~ret.value)
  /\ (JustReturned("restore") /\ ret.arg \in Enumerated) =>
       (~monitors[ret.arg].has_original =>
          (written[ret.arg] = NotWritten /\ ~ret.value))

\* C7: once initialize() has captured a display's original ramp, that display's
\* original_ramp and has_original flag stay as they are under every later
\* public operation, initialize() and captureOriginal() included.
OriginalsNeverChange ==
  [][\A d \in Enumerated :
       monitors[d].has_original =>
         /\ d <= Len(monitors')
         /\ monitors'[d].has_original
         /\ monitors'[d].original_ramp = monitors[d].original_ramp]_vars

HasAccepted(d) == \E k \in 1 .. ProbeCount(d) : search[d].probes[k].accepted
HasAcceptedNonIdentity(d) ==
  \E k \in 1 .. ProbeCount(d) :
    search[d].probes[k].accepted /\ ~search[d].probes[k].identity

\* C8 as stated: applyAll returns true only if every enumerated display had an
\* accepted probe whose ramp differs from the identity ramp; it returns false
\* when a display had no accepted probe, and has then still run the search on
\* every display.
TrueOnlyIfNonIdentityAccepted ==
  JustReturned("applyAll") =>
    /\ ret.value => \A d \in Enumerated : HasAcceptedNonIdentity(d)
    /\ (\E d \in Enumerated : ~HasAccepted(d)) => ~ret.value
    /\ \A d \in Enumerated : Done(d)

\* C8 amended: applyAll returns true exactly if every enumerated display had an
\* accepted (read-back verified) probe, of whatever ramp, the identity ramp
\* included; it has run the search on every display either way.
TrueIffEveryDisplayAccepted ==
  JustReturned("applyAll") =>
    /\ ret.value <=> \A d \in Enumerated : HasAccepted(d)
    /\ \A d \in Enumerated : Done(d) /\ ProbeCount(d) > 0

\* The first display's search failed, the second display's search still ran
\* and succeeded, and applyAll returned false.
TrueIffEveryDisplayAcceptedWitness ==
  /\ JustReturned("applyAll") /\ ~ret.value
  /\ Len(monitors) = NDisplays
  /\ ~HasAccepted(1) /\ ProbeCount(1) = kMaxAttempts
  /\ HasAcceptedNonIdentity(NDisplays) /\ search[NDisplays].result

\* The record of a search that is about to issue its first probe.
AtStart(s) == s.st = "loop" /\ Len(s.probes) = 0

\* C9: while the adaptive search runs on one display, every other display's
\* record (safe_scale, original_ramp, has_original) stays as it is, nothing is
\* written to another display, and a search that starts on a display starts
\* from that display's own safe_scale: low = 0, high = min(1, 1.05 * safe_scale).
SearchKeepsToItsDisplay ==
  [][/\ call.pc = "search" =>
          \A b \in Enumerated :
            b # call.m =>
              /\ monitors'[b] = monitors[b]
              /\ written'[b] = written[b]
              /\ screen'[b] = screen[b]
              /\ search'[b] # search[b] => AtStart(search'[b])
     /\ \A b \in 1 .. Len(monitors') :
          AtStart(search'[b]) =>
            /\ search'[b].low = 0
            /\ search'[b].start_safe = monitors'[b].safe_scale
            /\ search'[b].high =
                 Min(ScaleDen, (monitors'[b].safe_scale * 105) \div 100)]_vars

\* The first display's search was rejected throughout and lowered its
\* safe_scale to 0.1; the second display's search is under way from 1.0.
SearchKeepsToItsDisplayWitness ==
  /\ call.pc = "search" /\ call.m = 2
  /\ Done(1) /\ ~search[1].result /\ monitors[1].safe_scale * 10 = ScaleDen
  /\ ProbeCount(2) > 0
  /\ search[2].start_safe = ScaleDen /\ search[2].probes[1].scale = ScaleDen

RestoreAllStep ==
  call.pc = "idle" /\ call'.pc = "idle" /\ nops' = nops + 1 /\ ret'.op = "restoreAll"

\* C11: whatever applyAll / apply calls came before, restoreAll writes to every
\* display with a captured original exactly that captured ramp, as its one
\* direct write (no probe, no read-back); when restoreAll directly follows
\* initialize() the ramp displayed afterwards is the captured one.
RestoresCapturedRamps ==
  [][RestoreAllStep =>
       \A d \in Enumerated :
         monitors[d].has_original =>
           /\ written'[d] = [kind |-> "restore", ramp |-> monitors[d].original_ramp]
           /\ search'[d].probes = << >>
           /\ reply' = NoReply
           /\ (ret.op = "initialize" => screen'[d] = monitors[d].original_ramp)]_vars

\* restoreAll has written the captured ramp (not the identity) to a display
\* that an earlier apply had left on its fallback.
RestoresCapturedRampsWitness ==
  /\ JustReturned("restoreAll")
  /\ \E d \in Enumerated :
       /\ monitors[d].has_original
       /\ monitors[d].original_ramp # IdentityRamp
       /\ written[d] = [kind |-> "restore", ramp |-> monitors[d].original_ramp]
       /\ monitors[d].safe_scale * 10 = ScaleDen

(* ---------------- one probe ---------------- *)
\* Every entry of every channel of the two ramps differs by at most 512.
AllWithin512(a, b) ==
  \A c \in Channels : \A k \in 1 .. RampSize :
    a[c][k] - b[c][k] <= 512 /\ b[c][k] - a[c][k] <= 512

\* C12: a probe is accepted exactly when the write succeeded, the read-back
\* succeeded and all 256 entries of all three channels read back within 512 of
\* the ramp written. On acceptance low, last_good and safe_scale are set to the
\* probed scale and ramp; on a failed write and on a failed verification only
\* high is set, and low, last_good and safe_scale stay as they were.
ProbeAcceptance ==
  [][\A d \in Enumerated :
       NewProbe(d) =>
         LET p == search'[d].probes[Len(search'[d].probes)] IN
         /\ p.accepted <=> (/\ reply'.write # "fail"
                            /\ reply'.read_ok
                            /\ AllWithin512(written'[d].ramp, screen'[d]))
         /\ p.accepted =>
              /\ search'[d].low = p.scale
              /\ search'[d].last_good = written'[d].ramp
              /\ monitors'[d].safe_scale = p.scale
         /\ ~p.accepted =>
              /\ search'[d].high = p.scale
              /\ search'[d].low = search[d].low
              /\ search'[d].last_good = search[d].last_good
              /\ monitors'[d].safe_scale = monitors[d].safe_scale]_vars

\* A search in which a write that succeeded was rejected because the read-back
\* failed, with low, last_good and safe_scale still at their starting values.
ProbeAcceptanceWitness ==
  /\ call.pc = "search"
  /\ ProbeCount(call.m) = 1
  /\ reply = [write |-> "honour", read_ok |-> FALSE]
  /\ ~LastProbe(call.m).accepted
  /\ screen[call.m] = written[call.m].ramp
  /\ search[call.m].high = LastProbe(call.m).scale
  /\ search[call.m].low = 0
  /\ monitors[call.m].safe_scale = search[call.m].start_safe

AppliesOnlyWithOriginal ==
  \A d \in Enumerated :
    written[d].kind \in {"probe", "reapply", "fallback"} => monitors[d].has_original

(* ---------------- safe_scale ---------------- *)
\* Display d's safe_scale changes in this step.
ScaleChanges(d) ==
  d <= Len(monitors') /\ monitors'[d].safe_scale # monitors[d].safe_scale

\* The step is a probe of display d accepted at the scale safe_scale takes.
AcceptedNow(d) ==
  /\ NewProbe(d)
  /\ search'[d].probes[Len(search'[d].probes)].accepted
  /\ search'[d].probes[Len(search'[d].probes)].scale = monitors'[d].safe_scale

\* The step is an initialize(), which gives safe_scale its initial value.
EnumeratedNow(d) ==
  /\ call.pc = "idle" /\ call'.pc = "idle" /\ nops' = nops + 1 /\ ret'.op = "initialize"
  /\ monitors'[d].safe_scale = InitialSafeScale

SafeScaleInRange == \A d \in Enumerated : monitors[d].safe_scale \in 0 .. ScaleDen

\* C20 as stated: safe_scale lies in [0, 1] and is the initial value or a scale
\* accepted in a probe: no step sets it to anything else.
SafeScaleOnlyConfirmed ==
  [][/\ SafeScaleInRange /\ SafeScaleInRange'
     /\ \A d \in Enumerated :
          ScaleChanges(d) => (AcceptedNow(d) \/ EnumeratedNow(d))]_vars

\* C20 amended: safe_scale lies in [0, 1] and is the initial value, a scale
\* accepted in a probe of that display, or the floor 0.1 set at the end of a
\* search none of whose probes was accepted.
SafeScaleConfirmedOrFloor ==
  [][/\ SafeScaleInRange /\ SafeScaleInRange'
     /\ \A d \in Enumerated :
          ScaleChanges(d) =>
            \/ AcceptedNow(d)
            \/ EnumeratedNow(d)
            \/ /\ monitors'[d].safe_scale * 10 = ScaleDen
               /\ search[d].st = "post"
               /\ search'[d].st = "done"
               /\ ProbeCount(d) > 0
               /\ AllRejected(d)]_vars

\* A display whose safe_scale is the floor although every probe of its search,
\* the one at 0.1 not among them, was rejected.
SafeScaleConfirmedOrFloorWitness ==
  \E d \in Enumerated :
    /\ Done(d)
    /\ AllRejected(d)
    /\ monitors[d].safe_scale * 10 = ScaleDen
    /\ \A k \in 1 .. ProbeCount(d) : search[d].probes[k].scale # monitors[d].safe_scale
    /\ search[d].start_safe * 32 = 19 * ScaleDen

(* ---------------- the Custom curve ---------------- *)
\* The points' abscissae increase strictly.
SortedByX(points) == \A j \in 1 .. Len(points) - 1 : points[j].x < points[j + 1].x

\* The straight line through p and q at x, for x - p.x and q.x - p.x multiples
\* of a quarter.
OnLine(p, q, x) ==
  p.y + (((x - p.x) \div Quarter) * (q.y - p.y)) \div ((q.x - p.x) \div Quarter)

\* C15: for a Custom curve of at least two points sorted by x (abscissae
\* distinct), the value at x is the first point's y for x <= first.x, the last
\* point's y for x >= last.x, and otherwise lies on the straight line between
\* the two surrounding points, so that a sample on a control point yields that
\* point's y; with fewer than two points or no point list the value is x.
CustomInterpolates ==
  rb_pc = "valued" =>
    LET points == rb_args.custom_curve.points
        n == Len(points)
    IN IF rb_args.custom_curve.is_null \/ n < 2
       THEN rb_y = rb_x
       ELSE SortedByX(points) =>
              /\ rb_x <= points[1].x => rb_y = points[1].y
              /\ rb_x >= points[n].x => rb_y = points[n].y
              /\ \A j \in 1 .. n - 1 :
                   (points[j].x <= rb_x /\ rb_x <= points[j + 1].x) =>
                     rb_y = OnLine(points[j], points[j + 1], rb_x)
              /\ \A j \in 1 .. n : rb_x = points[j].x => rb_y = points[j].y

\* The points (0,0), (0.5,0.7), (1,1) sampled at x = 0.25 give 0.35.
CustomInterpolatesWitness ==
  /\ rb_pc = "valued"
  /\ rb_args.custom_curve =
       PointsAt(<< [x |-> 0, y |-> 0], [x |-> 32767500, y |-> 45874500],
                   [x |-> 65535000, y |-> 65535000] >>)
  /\ rb_x = 16383750
  /\ rb_y = 22937250

(* ---------------- enforceMonotonicity on any ramp ---------------- *)
\* C19: on any ramp, enforceMonotonicity leaves entry 0 of each channel as it
\* is and lowers no entry; afterwards every entry i > 0 is strictly greater than
\* entry i-1 unless both are 65535; an entry is changed only when it was not
\* strictly greater than its processed predecessor, and it is then that
\* predecessor plus 1, capped at 65535.
EnforceRaisesMinimally ==
  rb_pc = "enforced" =>
    \A c \in Channels :
      /\ rb_ramp[c][1] = rb_raw[c][1]
      /\ \A k \in 2 .. RampSize :
           /\ rb_ramp[c][k] >= rb_raw[c][k]
           /\ \/ rb_ramp[c][k] > rb_ramp[c][k - 1]
              \/ (rb_ramp[c][k] = 65535 /\ rb_ramp[c][k - 1] = 65535)
           /\ rb_ramp[c][k] # rb_raw[c][k] =>
                /\ rb_raw[c][k] <= rb_ramp[c][k - 1]
                /\ rb_ramp[c][k] =
                     (IF rb_ramp[c][k - 1] + 1 > 65535 THEN 65535
                      ELSE rb_ramp[c][k - 1] + 1)

\* A channel flat at 65534: entry 1 was raised to 65535 and entry 2, raised as
\* well, stays at 65535 with its predecessor.
EnforceRaisesMinimallyWitness ==
  /\ rb_pc = "enforced"
  /\ \E c \in Channels :
       /\ rb_raw[c][2] = 65534 /\ rb_ramp[c][2] = 65535 /\ rb_ramp[c][1] = 65534
       /\ rb_raw[c][3] = 65534 /\ rb_ramp[c][3] = 65535

(* ---------------- the application ---------------- *)
\* This step runs a handler that goes through App::setGamma.
SetGammaStep ==
  nevents' = nevents + 1 /\ event'.name \in {"setGamma", "adjustGamma", "setToneCurve"}

\* C16: when applyAll returns false inside App::setGamma, current_gamma_ keeps
\* the value it had before the call.
FailedApplyKeepsGamma ==
  [][(SetGammaStep /\ ~last_apply'.ok) => current_gamma_' = current_gamma_]_vars

CrashRestores ==
  (wm_pc = "crashed" /\ crash.modified) => (crash.handled /\ crash.restored)

(* ---------------- the bounds of one search ---------------- *)
\* min(1, 1.05 * safe_scale at the start of display d's search)
StartBound(d) ==
  IF 105 * search[d].start_safe > 100 * ScaleDen THEN ScaleDen
  ELSE (105 * search[d].start_safe) \div 100

\* C21: throughout a search 0 <= low <= high <= min(1, 1.05 * safe_scale at
\* call start) holds after every attempt; the first attempt probes high and
\* every later one the midpoint of low and high (to the resolution of the
\* scale), so each probed scale lies in [low, high]; low never decreases and
\* high never increases.
BoundsEncloseProbes ==
  [][\A d \in Enumerated :
       NewProbe(d) =>
         LET p == search'[d].probes[Len(search'[d].probes)]
             mid == search[d].low + search[d].high
         IN /\ 0 <= search'[d].low
            /\ search'[d].low <= search'[d].high
            /\ search'[d].high <= StartBound(d)
            /\ IF ProbeCount(d) = 0 THEN p.scale = search[d].high
               ELSE 2 * p.scale <= mid /\ mid <= 2 * p.scale + 1
            /\ search[d].low <= p.scale /\ p.scale <= search[d].high
            /\ search'[d].low >= search[d].low
            /\ search'[d].high <= search[d].high]_vars

\* A search whose fourth probe left 0 < low < high below the start bound, low
\* raised and high lowered by earlier probes.
BoundsEncloseProbesWitness ==
  \E d \in Enumerated :
    /\ search[d].st = "loop"
    /\ ProbeCount(d) = 4
    /\ 0 < search[d].low
    /\ search[d].low < search[d].high
    /\ search[d].high < StartBound(d)
    /\ \E k \in 1 .. 4 : search[d].probes[k].accepted

\* The scales accepted in display d's search, in the order of the probes.
AcceptedAt(d, k) == search[d].probes[k].accepted
LargestAccepted(d, scale) ==
  /\ \E k \in 1 .. ProbeCount(d) : AcceptedAt(d, k) /\ search[d].probes[k].scale = scale
  /\ \A k \in 1 .. ProbeCount(d) : AcceptedAt(d, k) => search[d].probes[k].scale <= scale

\* C22: when a search returns success, the display's safe_scale is the largest
\* scale accepted during that call, the accepted scales of the call never
\* decrease, and last_good is the ramp blended at exactly that scale.
SuccessKeepsLargestAccepted ==
  \A d \in Enumerated :
    (Done(d) /\ search[d].result) =>
      /\ LargestAccepted(d, monitors[d].safe_scale)
      /\ \A j \in 1 .. ProbeCount(d) : \A k \in j .. ProbeCount(d) :
           (AcceptedAt(d, j) /\ AcceptedAt(d, k)) =>
             search[d].probes[j].scale <= search[d].probes[k].scale
      /\ search[d].last_good =
           enforceMonotonicity(
             blendRampTowardIdentity(call.ideal, IdentityRamp, monitors[d].safe_scale))

\* A successful search with three accepted probes at three different scales.
SuccessKeepsLargestAcceptedWitness ==
  \E d \in Enumerated :
    /\ Done(d) /\ search[d].result
    /\ \E i \in 1 .. ProbeCount(d), j \in 1 .. ProbeCount(d), k \in 1 .. ProbeCount(d) :
         /\ i < j /\ j < k
         /\ AcceptedAt(d, i) /\ AcceptedAt(d, j) /\ AcceptedAt(d, k)
         /\ search[d].probes[i].scale < search[d].probes[j].scale
         /\ search[d].probes[j].scale < search[d].probes[k].scale
         /\ monitors[d].safe_scale = search[d].probes[k].scale

\* C23: no probe of a call exceeds min(1, 1.05 * s0), s0 being the display's
\* safe_scale when the call starts, so safe_scale ends at most 5% above s0;
\* after a total rejection (safe_scale 0.1) the next call probes nothing above
\* 0.105, even on a display that accepts every scale.
ProbesWithinFivePercent ==
  \A d \in Enumerated :
    search[d].st # "none" =>
      /\ \A k \in 1 .. ProbeCount(d) :
           /\ search[d].probes[k].scale <= ScaleDen
           /\ 100 * search[d].probes[k].scale <= 105 * search[d].start_safe
           /\ search[d].start_safe * 10 = ScaleDen =>
                search[d].probes[k].scale * 1000 <= 105 * ScaleDen
      /\ (Done(d) /\ search[d].result) =>
           100 * monitors[d].safe_scale <= 105 * search[d].start_safe

\* A display that accepts every scale, searched after a total rejection: the
\* one probe, at 0.105, was accepted and safe_scale is 0.105.
ProbesWithinFivePercentWitness ==
  \E d \in Enumerated :
    /\ Done(d) /\ search[d].result
    /\ oracle[d] = Cooperative
    /\ search[d].start_safe * 10 = ScaleDen
    /\ ProbeCount(d) = 1
    /\ monitors[d].safe_scale * 1000 = 105 * ScaleDen

(* ---------------- restoreAll, display by display ---------------- *)
\* This step is a call of restore(index).
RestoreStep ==
  call.pc = "idle" /\ call'.pc = "idle" /\ nops' = nops + 1 /\ ret'.op = "restore"

\* C24: restoreAll attempts the write of every display with a captured
\* original whatever happened to the writes before it, returns true exactly
\* when none of the attempted writes failed, and neither restoreAll nor
\* restore changes a field of any monitor record.
RestoreWritesIndependent ==
  [][/\ RestoreAllStep =>
          /\ \A d \in Enumerated :
               monitors[d].has_original =>
                 /\ written'[d].kind = "restore"
                 /\ ret'.resp[d] = "honour" => screen'[d] = monitors[d].original_ramp
          /\ ret'.value <=>
               (\A d \in Enumerated : monitors[d].has_original => ret'.resp[d] # "fail")
          /\ monitors' = monitors
     /\ RestoreStep => monitors' = monitors]_vars

\* restoreAll's write failed on display 1 and display 2 got its original all
\* the same; the call returned false.
RestoreWritesIndependentWitness ==
  /\ JustReturned("restoreAll")
  /\ NDisplays >= 2
  /\ Len(monitors) >= 2
  /\ monitors[1].has_original /\ monitors[2].has_original
  /\ ret.resp[1] = "fail"
  /\ written[2].kind = "restore"
  /\ screen[2] = monitors[2].original_ramp
  /\ screen[1] # monitors[1].original_ramp
  /\ ~ret.value

(* ---------------- the envelope and the quantization ---------------- *)
\* C25: every entry i of every channel of the ramp buildRamp returns is at
\* most min(65535, 771 * i + 13107), for every curve kind, strength and Custom
\* point list.
BuildRampInEnvelope ==
  rb_pc = "built" =>
    \A c \in Channels : \A k \in 1 .. RampSize :
      /\ rb_ramp[c][k] <= 65535
      /\ rb_ramp[c][k] <= 771 * (k - 1) + 13107

\* Power at strength 9.0, which the envelope cuts: entry 0 is 0, entry 1 is on
\* the envelope, and entry 255 is 65535.
BuildRampInEnvelopeWitness ==
  /\ rb_pc = "built"
  /\ rb_args.curve = "Power" /\ rb_args.strength = 90
  /\ rb_ramp.red[1] = 0
  /\ rb_ramp.red[2] = 771 + 13107
  /\ rb_ramp.red[RampSize] = 65535

\* The clamped curve output of sample k - 1 of the bench arguments, in units of
\* 1/(65535 * Frac).
ClampedOutput(k) ==
  ClampSample(Corrected(rb_args.curve, rb_args.strength, rb_args.custom_curve, k - 1), k - 1)

\* Entry k of the built ramp was raised by the monotonicity pass.
Raised(k) ==
  k > 1 /\ (rb_ramp.red[k] = rb_ramp.red[k - 1] + 1 \/ rb_ramp.red[k] = 65535)

\* C26 as stated: each entry the monotonicity pass did not raise is the clamped
\* output times 65535 rounded to the nearest integer.
QuantizeRounds ==
  rb_pc = "built" =>
    \A k \in 1 .. RampSize :
      Raised(k) \/
        LET v == ClampedOutput(k) IN
        /\ 2 * rb_ramp.red[k] * Frac - Frac <= 2 * v
        /\ 2 * v < 2 * rb_ramp.red[k] * Frac + Frac

\* C26 amended: each entry the monotonicity pass did not raise is the clamped
\* output times 65535 with its fraction dropped (0.5 gives 32767), and the
\* Linear curve gives entry[i] = 257 * i.
QuantizeTruncates ==
  rb_pc = "built" =>
    /\ \A k \in 1 .. RampSize :
         Raised(k) \/
           LET v == ClampedOutput(k) IN
           /\ rb_ramp.red[k] * Frac <= v
           /\ v < (rb_ramp.red[k] + 1) * Frac
    /\ rb_args.curve = "Linear" =>
         \A c \in Channels : \A k \in 1 .. RampSize : rb_ramp[c][k] = 257 * (k - 1)

\* A Custom curve flat at 0.5: the first entry the envelope lets through is
\* 32767, and the pass raises the next one to 32768.
QuantizeTruncatesWitness ==
  /\ rb_pc = "built"
  /\ rb_args.custom_curve =
       PointsAt(<< [x |-> 0, y |-> 32767500], [x |-> 65535000, y |-> 32767500] >>)
  /\ \E k \in 2 .. RampSize - 1 :
       /\ ClampedOutput(k) = 32767500
       /\ rb_ramp.red[k - 1] < 32766
       /\ rb_ramp.red[k] = 32767
       /\ rb_ramp.red[k + 1] = 32768

(* ---------------- the toggle and the reset ---------------- *)
ToggleStep ==
  /\ nevents' = nevents + 1
  /\ event'.name = "toggleGamma"

\* C27: while gamma_enabled_ is false the last engine call was the restore of
\* the originals, and a toggleGamma that directly follows a toggleGamma puts
\* current_gamma_ and gamma_enabled_ back to what the first one found.
OffMeansRestored ==
  [][/\ ~gamma_enabled_' => ~modified'
     /\ (ToggleStep /\ event.name = "toggleGamma") =>
          (current_gamma_' = event.gamma /\ gamma_enabled_' = event.enabled)]_vars

\* C28: after a resetGamma whose restoreAll failed, the curve handed to
\* applyAll builds the identity ramp, and current_gamma_ is 1.0.
ResetFallbackIsIdentity ==
  (event.name = "resetGamma" /\ modified) =>
    /\ current_gamma_ = GammaDen
    /\ buildRamp(last_apply.curve, (10 * last_apply.strength) \div GammaDen, nullptr)
         = IdentityRamp

(* ---------------- the hotkeys ---------------- *)
\* C29: a setHotkeys that returns false leaves the configured bindings, the
\* bindings Hotkeys stores and the OS's table as they were, and while the
\* application runs the configured bindings are the stored ones.
FailedSetHotkeysKeepsBindings ==
  [][/\ (hk_ret'.op = "setHotkeys" /\ ~hk_ret'.success /\ hk_pc' = "loop" /\ taken' = taken) =>
          /\ config_hotkeys' = config_hotkeys
          /\ bindings' = bindings
          /\ os_hotkeys' = os_hotkeys
     /\ hk_pc' = "loop" => config_hotkeys' = bindings']_vars

(* ---------------- the histogram capture ---------------- *)
\* The histograms published so far, the initial one included.
Published == {Complete(n) : n \in 0 .. ncaptures}

\* stop() has returned.
Stopped == main_pc \in {"stopped", "destroyed"}

====
